---- MODULE Spec2Model ----
(***************************************************************************)
(* State-machine model of the algo-visualizer components:                  *)
(*   - the sorting step recorders (bubbleSort, selectionSort) and the      *)
(*     playback transport of the array visualizer,                         *)
(*   - the linked-list, hash-table and binary-tree visualizers.            *)
(* React state is modelled as variables, a handler as one action, a        *)
(* pending timer or animation-frame callback as a record holding the       *)
(* values its closure captured.                                            *)
(***************************************************************************)
EXTENDS Integers, Sequences, FiniteSets, TLC

VARIABLES
  \* ---- sorting step recorders, applied to a drawn input
  sortInput,        \* the input values
  sortAlgo,         \* "none" | "bubbleSort" | "selectionSort" | "olderBubbleSort":
                    \* what produced sortLog
  sortLog,          \* the returned step log
  \* ---- array visualizer
  array,            \* useState array: Seq([value, status])
  arraySize,        \* useState arraySize
  selectedAlgorithm,
  isPlaying, isCompleted, currentStep, totalSteps,
  stepsRef,         \* stepsRef.current: Seq(Seq([value, status]))
  animationRef,     \* animationRef.current: Null or the id of a requested frame
  frames,           \* requested animation-frame callbacks, in request order:
                    \* Seq([id, step]) with step the closure's local counter
  arrEvent,         \* observation: how the last handler call ended: "handled",
                    \* "pause" (a pause that took effect), "arrayReplaced"
                    \* (Shuffle, Custom Array), "stepDisabled" or "...Ignored"
  \* ---- linked-list visualizer
  listType,         \* "singly" | "doubly" | "circular"
  nodes,            \* useState nodes: Seq of [value, status, next] records, with a
                    \* prev field in the nodes of a doubly list; next and prev
                    \* hold 0-based indexes or Null
  head, tail,       \* 0-based indexes or Null
  newNodeValue,     \* the input's text: <<>> when empty, <<v>> when it reads v
  listIsAnimating,  \* useState isAnimating of the list visualizer
  listTimers,       \* handlers waiting at their await, with what they captured
  listStale,        \* observation: 0 until a reset finds a handler waiting; from
                    \* then on that reset, and every operation requested after it,
                    \* counts one
  \* ---- hash-table visualizer
  hashType,         \* "map" | "set"
  hashHeap,         \* the entry objects: Seq([key, value, status])
  entries,          \* useState entries: Seq of references into hashHeap
  buckets,          \* useState buckets: Seq of Seq of references into hashHeap
  newKey, newValue, searchKey,
  selectedEntry,    \* a key, or <<>> for null
  hashIsAnimating,  \* useState isAnimating of the hash visualizer
  hashTimers,       \* handlers waiting at their await, with what they captured
  hashEvent,        \* observation: how the last handler call ended: "handled",
                    \* "duplicate" (add rejected) or "missing" (nothing to remove)
  hashStale,        \* observation: as listStale, for the hash table
  root,             \* useState root of the tree visualizer: a tree
  treeIsAnimating,  \* useState isAnimating of the tree visualizer
  inputValue,       \* useState inputValue: <<>> for '', or <<v>>
  treeTimers,       \* pending setTimeout callbacks of the tree visualizer
  treeCrashed,      \* a state updater has thrown and React has unmounted the tree
  treeEvent,        \* observation: how the last user action on the tree ended:
                    \* "noValueToDelete" (handleDelete's first check) or "handled"
  treeStale,        \* observation: as listStale, for the tree
  \* ---- the speed setting each visualizer hands to its controls
  speed,            \* useState speed, one per visualizer: [array, list, hash, tree]
  \* ---- one playback of the array visualizer, with its clock
  clock,            \* [vis, phase, speed, now, ref, step, last, gap, frame]: see
                    \* ClockIdle
  \* ---- one call of the hash visualizer's hashFunction
  hashCall,         \* [key, size, result]: the key, the bucketSize prop and what
                    \* the call returned (Null before the call)
  \* ---- stack visualizer
  stack,            \* useState stack: Seq([value, status, uid]), top last; uid is
                    \* an observation naming the item object
  stackNewItemValue,        \* useState newItemValue: the input's text
  stackSelectedItem,        \* useState selectedItem: a 0-based index or Null
  stackAnimationInProgress, \* useState animationInProgress
  stackTimers,      \* handlers waiting at their await: Seq of "push" | "pop" | "peek"
  stackPushed,      \* observation: the uids of the items present, in the order
                    \* they were pushed
  \* ---- queue visualizer
  queue,            \* useState queue: Seq([value, status, uid]), front first
  queueNewItemValue, queueSelectedItem, queueAnimationInProgress,
  queueTimers,      \* handlers waiting at their await: Seq of "enqueue" |
                    \* "dequeue" | "peek"
  queueEnqueued     \* observation: as stackPushed, in the order enqueued

sortVars == <<sortInput, sortAlgo, sortLog>>
arrVars  == <<array, arraySize, selectedAlgorithm, isPlaying, isCompleted,
              currentStep, totalSteps, stepsRef, animationRef, frames, arrEvent>>
listVars == <<listType, nodes, head, tail, newNodeValue, listIsAnimating,
              listTimers, listStale>>
hashVars == <<hashType, hashHeap, entries, buckets, newKey, newValue, searchKey,
              selectedEntry, hashIsAnimating, hashTimers, hashEvent, hashStale>>
treeVars == <<root, treeIsAnimating, inputValue, treeTimers, treeCrashed, treeEvent,
              treeStale>>
speedVars == <<speed>>
clockVars == <<clock>>
callVars == <<hashCall>>
stackVars == <<stack, stackNewItemValue, stackSelectedItem, stackAnimationInProgress,
               stackTimers, stackPushed>>
queueVars == <<queue, queueNewItemValue, queueSelectedItem, queueAnimationInProgress,
               queueTimers, queueEnqueued>>
vars == <<sortVars, arrVars, listVars, hashVars, treeVars, speedVars, clockVars,
          callVars, stackVars, queueVars>>

\* what the actions of one component leave alone
sortOthers == <<arrVars, listVars, hashVars, treeVars, speedVars, clockVars,
                callVars, stackVars, queueVars>>
arrOthers  == <<sortVars, listVars, hashVars, treeVars, speedVars, clockVars,
                callVars, stackVars, queueVars>>
listOthers == <<sortVars, arrVars, hashVars, treeVars, speedVars, clockVars,
                callVars, stackVars, queueVars>>
hashOthers == <<sortVars, arrVars, listVars, treeVars, speedVars, clockVars,
                callVars, stackVars, queueVars>>
treeOthers == <<sortVars, arrVars, listVars, hashVars, speedVars, clockVars,
                callVars, stackVars, queueVars>>
speedOthers == <<sortVars, arrVars, listVars, hashVars, treeVars, clockVars,
                callVars, stackVars, queueVars>>
clockOthers == <<sortVars, arrVars, listVars, hashVars, treeVars, speedVars,
                callVars, stackVars, queueVars>>
callOthers == <<sortVars, arrVars, listVars, hashVars, treeVars, speedVars, clockVars,
                stackVars, queueVars>>
stackOthers == <<sortVars, arrVars, listVars, hashVars, treeVars, speedVars, clockVars,
                 callVars, queueVars>>
queueOthers == <<sortVars, arrVars, listVars, hashVars, treeVars, speedVars, clockVars,
                 callVars, stackVars>>

\* null; indexes and frame ids are never negative
Null == -1

(***************************************************************************)
(* Bounds                                                                  *)
(***************************************************************************)
SortMaxLen == 3     \* longest input drawn for the step recorders
SortMaxVal == 3     \* inputs hold values 1..SortMaxVal
MaxChains == 2      \* most animation-frame callbacks requested at once
MaxListLen == 5     \* longest linked list an add is offered for
MaxListStale == 3   \* a list reset that finds a handler waiting, and the
                    \* operations requested after it: at most this many together
MaxHashStale == 2   \* the same for the hash table
MaxTreeStale == 1   \* the same for the tree
MaxTreeVal == 3     \* the tree holds values 1..MaxTreeVal
MaxTreeTimers == 2  \* a tree walk is requested while fewer timers are pending
MaxStackLen == 4     \* a push is offered while the stack is shorter
MaxStackTimers == 2  \* a stack operation is requested while fewer timers wait
MaxQueueLen == 4     \* an enqueue is offered while the queue is shorter
MaxQueueTimers == 2  \* the same as MaxStackTimers, for the queue
MaxClockFrames == 6 \* animation frames followed in one timed playback
ClockStart == 100000 \* Date.now() when the timed playback starts, in ms

(***************************************************************************)
(* Helpers                                                                 *)
(***************************************************************************)
SeqsUpTo(S, lo, hi) == UNION {[1..n -> S] : n \in lo..hi}

Item(v) == [value |-> v, status |-> "default"]

ToItems(vals) == [k \in 1..Len(vals) |-> Item(vals[k])]

Values(items) == [k \in 1..Len(items) |-> items[k].value]

IsPermutation(a, b) ==
  /\ Len(a) = Len(b)
  /\ \A v \in {a[k] : k \in 1..Len(a)} \cup {b[k] : k \in 1..Len(b)} :
       Cardinality({k \in 1..Len(a) : a[k] = v}) = Cardinality({k \in 1..Len(b) : b[k] = v})

NonDecreasing(a) == \A k \in 1..(Len(a) - 1) : a[k] <= a[k + 1]

AllStatus(items, s) == \A k \in 1..Len(items) : items[k].status = s

Last(s) == s[Len(s)]

(***************************************************************************)
(* bubbleSort: the step recorder.  st = [copy, steps]; i, j are the code's *)
(* 0-based loop counters, copy[j] of the code is st.copy[j + 1].           *)
(***************************************************************************)
BubbleCompareNoSwap(st, i, j) ==
  LET n  == Len(st.copy)
      c1 == [st.copy EXCEPT ![j + 1].status = "comparing", ![j + 2].status = "comparing"]
      c5 == [c1 EXCEPT ![j + 1].status = "default",
                       ![j + 2].status = IF j + 1 = n - i - 1 THEN "sorted" ELSE "default"]
  IN [copy |-> c5, steps |-> Append(st.steps, c1)]

BubbleCompare(st, i, j) ==
  LET n  == Len(st.copy)
      \* the two resets to default are overwritten at once by "comparing"
      c1 == [st.copy EXCEPT ![j + 1].status = "comparing", ![j + 2].status = "comparing"]
      s1 == Append(st.steps, c1)
      sw == c1[j + 1].value > c1[j + 2].value
      c2 == [c1 EXCEPT ![j + 1].status = "swapping", ![j + 2].status = "swapping"]
      c3 == [c2 EXCEPT ![j + 1] = c2[j + 2], ![j + 2] = c2[j + 1]]
      c4 == IF sw THEN c3 ELSE c1
      s4 == IF sw THEN Append(Append(s1, c2), c3) ELSE s1
      c5 == [c4 EXCEPT ![j + 1].status = "default",
                       ![j + 2].status = IF j + 1 = n - i - 1 THEN "sorted" ELSE "default"]
  IN [copy |-> c5, steps |-> s4]

RECURSIVE BubbleLoop(_, _, _)
BubbleLoop(st, i, j) ==
  LET n == Len(st.copy) IN
  IF i >= n THEN st
  ELSE IF j >= n - i - 1 THEN BubbleLoop(st, i + 1, 0)
  ELSE BubbleLoop(BubbleCompare(st, i, j), i, j + 1)

bubbleSort(arr) ==
  LET copy == [k \in 1..Len(arr) |-> [value |-> arr[k].value, status |-> "default"]]
      st   == BubbleLoop([copy |-> copy, steps |-> <<copy>>], 0, 0)
      fin  == [k \in 1..Len(arr) |-> [st.copy[k] EXCEPT !.status = "sorted"]]
  IN Append(st.steps, fin)

(***************************************************************************)
(* selectionSort: the step recorder.  st = [copy, steps, minIndex].        *)
(***************************************************************************)
SelectionScan(st, i, j) ==
  LET c1 == [st.copy EXCEPT ![j + 1].status = "comparing"]
      s1 == Append(st.steps, c1)
  IN IF c1[j + 1].value < c1[st.minIndex + 1].value
     THEN [copy |-> IF st.minIndex # i
                    THEN [c1 EXCEPT ![st.minIndex + 1].status = "default"]
                    ELSE c1,
           steps |-> s1, minIndex |-> j]
     ELSE [copy |-> [c1 EXCEPT ![j + 1].status = "default"],
           steps |-> s1, minIndex |-> st.minIndex]

RECURSIVE SelectionInner(_, _, _)
SelectionInner(st, i, j) ==
  IF j >= Len(st.copy) THEN st
  ELSE SelectionInner(SelectionScan(st, i, j), i, j + 1)

SelectionPass(st, i) ==
  LET c0 == [st.copy EXCEPT ![i + 1].status = "comparing"]
      sc == SelectionInner([copy |-> c0, steps |-> Append(st.steps, c0), minIndex |-> i],
                           i, i + 1)
      m  == sc.minIndex
      c2 == [sc.copy EXCEPT ![i + 1].status = "swapping", ![m + 1].status = "swapping"]
      c3 == [c2 EXCEPT ![i + 1] = c2[m + 1], ![m + 1] = c2[i + 1]]
      c4 == IF m # i THEN c3 ELSE sc.copy
      s4 == IF m # i THEN Append(Append(sc.steps, c2), c3) ELSE sc.steps
      c5 == [c4 EXCEPT ![i + 1].status = "sorted"]
      c6 == IF m # i THEN [c5 EXCEPT ![m + 1].status = "default"] ELSE c5
  IN [copy |-> c6, steps |-> Append(s4, c6), minIndex |-> m]

RECURSIVE SelectionLoop(_, _)
SelectionLoop(st, i) ==
  IF i >= Len(st.copy) - 1 THEN st
  ELSE SelectionLoop(SelectionPass(st, i), i + 1)

\* For an empty array the code's copy[n - 1].status throws; the visualizer
\* never holds an empty array, and the operator is applied to n >= 1 only.
selectionSort(arr) ==
  LET n    == Len(arr)
      copy == [k \in 1..n |-> [value |-> arr[k].value, status |-> "default"]]
      st   == SelectionLoop([copy |-> copy, steps |-> <<copy>>, minIndex |-> 0], 0)
      fin  == [st.copy EXCEPT ![n].status = "sorted"]
  IN Append(st.steps, fin)

(***************************************************************************)
(* bubbleSort of the older array visualizer.  Its first push is            *)
(* steps.push([...copy]): step 0 holds the item objects of copy themselves,*)
(* every later push clones the items.  st = [heap, copy, steps]: heap is   *)
(* the item objects, copy the references the working array holds, steps    *)
(* the cloned steps (step 0 is kept apart, as the references 1..n).        *)
(***************************************************************************)
RECURSIVE OlderBubbleLoop(_, _, _)
OlderBubbleLoop(st, i, j) ==
  LET n == Len(st.copy)
      Snap(h, c) == [k \in 1..Len(c) |-> h[c[k]]]
  IN IF i >= n THEN st
     ELSE IF j >= n - i - 1
     THEN \* copy[n - i - 1].status = 'sorted', then a push
          LET h == [st.heap EXCEPT ![st.copy[n - i]].status = "sorted"]
          IN OlderBubbleLoop([st EXCEPT !.heap = h,
                                        !.steps = Append(@, Snap(h, st.copy))], i + 1, 0)
     ELSE LET a  == st.copy[j + 1]
              b  == st.copy[j + 2]
              h1 == [st.heap EXCEPT ![a].status = "comparing", ![b].status = "comparing"]
              s1 == Append(st.steps, Snap(h1, st.copy))
              sw == h1[a].value > h1[b].value
              h2 == [h1 EXCEPT ![a].status = "swapping", ![b].status = "swapping"]
              \* temp = {...copy[j]}; copy[j] = {...copy[j + 1]}; copy[j + 1] = temp
              h3 == h2 \o <<h2[a], h2[b]>>
              c3 == [st.copy EXCEPT ![j + 1] = Len(h2) + 2, ![j + 2] = Len(h2) + 1]
              h4 == IF sw THEN h3 ELSE h1
              c4 == IF sw THEN c3 ELSE st.copy
              s4 == IF sw THEN Append(Append(s1, Snap(h2, st.copy)), Snap(h3, c3)) ELSE s1
              h5 == [h4 EXCEPT ![c4[j + 1]].status = "default",
                               ![c4[j + 2]].status = "default"]
          IN OlderBubbleLoop([heap |-> h5, copy |-> c4, steps |-> s4], i, j + 1)

\* the log as it reads once the function has returned
olderBubbleSort(arr) ==
  LET n    == Len(arr)
      items == <<>> \o [k \in 1..n |-> [value |-> arr[k].value, status |-> "default"]]
      st   == OlderBubbleLoop([heap |-> items, copy |-> [k \in 1..n |-> k], steps |-> <<>>],
                              0, 0)
      fin  == [r \in 1..Len(st.heap) |->
                 IF \E k \in 1..n : st.copy[k] = r
                 THEN [st.heap[r] EXCEPT !.status = "sorted"] ELSE st.heap[r]]
  IN <<[k \in 1..n |-> fin[k]]>> \o st.steps \o <<[k \in 1..n |-> fin[st.copy[k]]]>>

getCurrentSortAlgorithm(alg, arr) ==
  IF alg = "selectionSort" THEN selectionSort(arr) ELSE bubbleSort(arr)

\* the tabs; insertionSort and mergeSort fall back to bubbleSort as quickSort does
Algorithms == {"bubbleSort", "selectionSort", "quickSort"}

(***************************************************************************)
(* The step recorders applied to a drawn input                             *)
(***************************************************************************)
SortInputs == SeqsUpTo(1..SortMaxVal, 1, SortMaxLen)

SortIdle ==
  /\ sortInput = <<1>>
  /\ sortAlgo = "none"
  /\ sortLog = <<>>

SortInit ==
  /\ sortInput \in SortInputs
  /\ sortAlgo = "none"
  /\ sortLog = <<>>

LoadSortInput ==
  /\ sortInput' \in SortInputs
  /\ sortAlgo' = "none"
  /\ sortLog' = <<>>
  /\ UNCHANGED sortOthers

RunBubbleSort ==
  /\ sortAlgo = "none"
  /\ sortLog' = bubbleSort(ToItems(sortInput))
  /\ sortAlgo' = "bubbleSort"
  /\ UNCHANGED sortInput
  /\ UNCHANGED sortOthers

RunSelectionSort ==
  /\ sortAlgo = "none"
  /\ sortLog' = selectionSort(ToItems(sortInput))
  /\ sortAlgo' = "selectionSort"
  /\ UNCHANGED sortInput
  /\ UNCHANGED sortOthers

RunOlderBubbleSort ==
  /\ sortAlgo = "none"
  /\ sortLog' = olderBubbleSort(ToItems(sortInput))
  /\ sortAlgo' = "olderBubbleSort"
  /\ UNCHANGED sortInput
  /\ UNCHANGED sortOthers

(***************************************************************************)
(* Array visualizer                                                        *)
(***************************************************************************)
\* the values an array of the visualizer holds (scaled down from 1..50) and the
\* sizes the size slider offers (scaled down from 5..25)
ArrayValues == {1, 2}

ArraySizes == {2}

\* generateRandomArray(size) mapped to items: any array of that size
generateRandomArray(size) == {ToItems(v) : v \in [1..size -> ArrayValues]}

FrameIds(fs) == {fs[k].id : k \in 1..Len(fs)}

\* requestAnimationFrame returns an id no pending request and no reference holds
FreshId(used) == CHOOSE n \in 1..(Cardinality(used) + 1) : n \notin used

\* cancelAnimationFrame(id)
CancelFrame(fs, id) == SelectSeq(fs, LAMBDA f : f.id # id)

ArrIdle ==
  /\ array = ToItems(<<1>>)
  /\ arraySize = 1
  /\ selectedAlgorithm = "bubbleSort"
  /\ isPlaying = FALSE
  /\ isCompleted = FALSE
  /\ currentStep = 0
  /\ totalSteps = 0
  /\ stepsRef = <<>>
  /\ animationRef = Null
  /\ frames = <<>>
  /\ arrEvent = "handled"

ArrInit ==
  /\ arraySize \in ArraySizes
  /\ array \in generateRandomArray(arraySize)
  /\ selectedAlgorithm = "bubbleSort"
  /\ isPlaying = FALSE
  /\ isCompleted = FALSE
  /\ currentStep = 0
  /\ totalSteps = 0
  /\ stepsRef = <<>>
  /\ animationRef = Null
  /\ frames = <<>>
  /\ arrEvent = "handled"

\* ---- playVisualization
PlayIgnoresGuard ==
  LET gen == Len(stepsRef) <= 1
      log == IF gen THEN getCurrentSortAlgorithm(selectedAlgorithm, array) ELSE stepsRef
      id  == FreshId(FrameIds(frames) \cup {animationRef})
  IN /\ Len(frames) < MaxChains
     /\ isPlaying' = TRUE
     /\ stepsRef' = log
     /\ totalSteps' = IF gen THEN Len(log) - 1 ELSE totalSteps
     /\ frames' = Append(frames, [id |-> id, step |-> currentStep])
     /\ animationRef' = id
     /\ arrEvent' = IF isPlaying \/ isCompleted THEN "playIgnored" ELSE "handled"
     /\ UNCHANGED <<array, arraySize, selectedAlgorithm, isCompleted, currentStep>>
     /\ UNCHANGED arrOthers

PlayVisualization ==
  /\ IF isPlaying \/ isCompleted
     THEN /\ arrEvent' = "playIgnored"
          /\ UNCHANGED <<array, arraySize, selectedAlgorithm, isPlaying, isCompleted,
                         currentStep, totalSteps, stepsRef, animationRef, frames>>
     ELSE LET gen == Len(stepsRef) <= 1
              log == IF gen THEN getCurrentSortAlgorithm(selectedAlgorithm, array)
                     ELSE stepsRef
              id  == FreshId(FrameIds(frames) \cup {animationRef})
          IN /\ Len(frames) < MaxChains
             /\ isPlaying' = TRUE
             /\ stepsRef' = log
             /\ totalSteps' = IF gen THEN Len(log) - 1 ELSE totalSteps
             /\ frames' = Append(frames, [id |-> id, step |-> currentStep])
             /\ animationRef' = id
             /\ arrEvent' = "handled"
             /\ UNCHANGED <<array, arraySize, selectedAlgorithm, isCompleted, currentStep>>
  /\ UNCHANGED arrOthers

\* ---- animate: one requested callback runs.  The elapsed-time test compares
\* Date.now() with animationRef.current, which by then holds a frame id (the
\* timestamp stored at line 363 is overwritten at line 374 in the same call) or
\* null, so the test passes on every frame.
\* st = [cs, arr, playing, completed, ref, next, used]
AnimateOvershoots(f, st) ==
  LET step == f.step + 1
      id   == FreshId(st.used)
  IN IF f.step < Len(stepsRef)
     THEN [st EXCEPT !.cs = step,
                     !.arr = stepsRef[IF step + 1 <= Len(stepsRef) THEN step + 1 ELSE Len(stepsRef)],
                     !.next = Append(st.next, [id |-> id, step |-> step]),
                     !.ref = id, !.used = st.used \cup {id}]
     ELSE [st EXCEPT !.completed = TRUE, !.playing = FALSE, !.ref = Null]

Animate(f, st) ==
  IF f.step < Len(stepsRef) - 1
  THEN LET step == f.step + 1
           id   == FreshId(st.used)
       IN [st EXCEPT !.cs = step, !.arr = stepsRef[step + 1],
                     !.next = Append(st.next, [id |-> id, step |-> step]),
                     !.ref = id, !.used = st.used \cup {id}]
  ELSE [st EXCEPT !.completed = TRUE, !.playing = FALSE, !.ref = Null]

RECURSIVE RunFrames(_, _)
RunFrames(fs, st) ==
  IF fs = <<>> THEN st ELSE RunFrames(Tail(fs), Animate(Head(fs), st))

\* ---- one browser animation frame: every requested callback runs, in request
\* order; the callbacks they request wait for the next frame.
AnimationFrame ==
  /\ frames # <<>>
  /\ LET st == RunFrames(frames,
                 [cs |-> currentStep, arr |-> array, playing |-> isPlaying,
                  completed |-> isCompleted, ref |-> animationRef, next |-> <<>>,
                  used |-> FrameIds(frames) \cup {animationRef}])
     IN /\ currentStep' = st.cs
        /\ array' = st.arr
        /\ isPlaying' = st.playing
        /\ isCompleted' = st.completed
        /\ animationRef' = st.ref
        /\ frames' = st.next
  /\ UNCHANGED <<arraySize, selectedAlgorithm, totalSteps, stepsRef, arrEvent>>
  /\ UNCHANGED arrOthers

\* ---- pauseVisualization
PauseVisualization ==
  /\ IF ~isPlaying
     THEN /\ arrEvent' = "pauseIgnored"
          /\ UNCHANGED <<array, arraySize, selectedAlgorithm, isPlaying, isCompleted,
                         currentStep, totalSteps, stepsRef, animationRef, frames>>
     ELSE /\ isPlaying' = FALSE
          /\ frames' = IF animationRef # Null THEN CancelFrame(frames, animationRef)
                       ELSE frames
          /\ animationRef' = Null
          /\ arrEvent' = "pause"
          /\ UNCHANGED <<array, arraySize, selectedAlgorithm, isCompleted,
                         currentStep, totalSteps, stepsRef>>
  /\ UNCHANGED arrOthers

\* ---- stepVisualization: declared without a parameter, so the direction the
\* transport passes (onStep(false) / onStep(true)) is dropped.
StepVisualization(forward) ==
  /\ IF isCompleted \/ currentStep >= Len(stepsRef) - 1
     THEN /\ arrEvent' = "stepIgnored"
          /\ UNCHANGED <<array, arraySize, selectedAlgorithm, isPlaying, isCompleted,
                         currentStep, totalSteps, stepsRef, animationRef, frames>>
     ELSE LET gen      == Len(stepsRef) <= 1
              log      == IF gen THEN getCurrentSortAlgorithm(selectedAlgorithm, array)
                          ELSE stepsRef
              nextStep == currentStep + 1
          IN /\ stepsRef' = log
             /\ totalSteps' = IF gen THEN Len(log) - 1 ELSE totalSteps
             /\ currentStep' = nextStep
             /\ array' = log[nextStep + 1]
             /\ isCompleted' = IF nextStep = Len(log) - 1 THEN TRUE ELSE isCompleted
             /\ arrEvent' = "handled"
             /\ UNCHANGED <<arraySize, selectedAlgorithm, isPlaying, animationRef, frames>>
  /\ UNCHANGED arrOthers

\* the transport's step buttons: disabled while playing, at the ends and for
\* an empty array
\* (a forward button that stays enabled during playback)
StepForwardWhilePlaying == ~(currentStep >= totalSteps) /\ Len(array) # 0

StepForwardEnabled == ~isPlaying /\ ~(currentStep >= totalSteps) /\ Len(array) # 0

StepBackwardEnabled == ~isPlaying /\ ~(currentStep <= 0) /\ Len(array) # 0

\* a press on a disabled button: no onClick is delivered
StepDisabled ==
  /\ arrEvent' = "stepDisabled"
  /\ UNCHANGED <<array, arraySize, selectedAlgorithm, isPlaying, isCompleted,
                 currentStep, totalSteps, stepsRef, animationRef, frames>>
  /\ UNCHANGED arrOthers

HandleStepForward ==
  IF StepForwardEnabled THEN StepVisualization(TRUE) ELSE StepDisabled

HandleStepBackward ==
  IF StepBackwardEnabled THEN StepVisualization(FALSE) ELSE StepDisabled

\* ---- resetVisualization
ResetVisualization ==
  \E newArray \in generateRandomArray(arraySize) :
    /\ array' = newArray
    /\ isPlaying' = FALSE
    /\ isCompleted' = FALSE
    /\ currentStep' = 0
    /\ totalSteps' = 0
    /\ stepsRef' = <<newArray>>
    /\ frames' = IF animationRef # Null THEN CancelFrame(frames, animationRef) ELSE frames
    /\ animationRef' = Null
    /\ arrEvent' = "handled"
    /\ UNCHANGED <<arraySize, selectedAlgorithm>>
    /\ UNCHANGED arrOthers

\* ---- resetArray (the sidebar's Reset button): the same statements
ResetArray ==
  \E newArray \in generateRandomArray(arraySize) :
    /\ array' = newArray
    /\ isPlaying' = FALSE
    /\ isCompleted' = FALSE
    /\ currentStep' = 0
    /\ totalSteps' = 0
    /\ stepsRef' = <<newArray>>
    /\ frames' = IF animationRef # Null THEN CancelFrame(frames, animationRef) ELSE frames
    /\ animationRef' = Null
    /\ arrEvent' = "handled"
    /\ UNCHANGED <<arraySize, selectedAlgorithm>>
    /\ UNCHANGED arrOthers

\* ---- handleSizeChange: no cancelAnimationFrame
HandleSizeChange ==
  \E value \in ArraySizes :
    \E newArray \in generateRandomArray(value) :
      /\ arraySize' = value
      /\ array' = newArray
      /\ isPlaying' = FALSE
      /\ isCompleted' = FALSE
      /\ currentStep' = 0
      /\ totalSteps' = 0
      /\ stepsRef' = <<newArray>>
      /\ arrEvent' = "handled"
      /\ UNCHANGED <<selectedAlgorithm, animationRef, frames>>
      /\ UNCHANGED arrOthers

\* ---- Shuffle button: setArray only
Shuffle ==
  \E p \in {q \in [1..Len(array) -> 1..Len(array)] :
              \A a, b \in 1..Len(array) : a # b => q[a] # q[b]} :
    /\ array' = [k \in 1..Len(array) |-> [array[p[k]] EXCEPT !.status = "default"]]
    /\ arrEvent' = "arrayReplaced"
    /\ UNCHANGED <<arraySize, selectedAlgorithm, isPlaying, isCompleted, currentStep,
                   totalSteps, stepsRef, animationRef, frames>>
    /\ UNCHANGED arrOthers

\* ---- Custom Array input: setArray and setArraySize only; non-numeric tokens
\* are dropped and an empty result is ignored
CustomArray ==
  \E values \in SeqsUpTo(ArrayValues, 0, 2) :
    /\ IF Len(values) > 0
       THEN array' = ToItems(values) /\ arraySize' = Len(values)
                                    /\ arrEvent' = "arrayReplaced"
       ELSE UNCHANGED <<array, arraySize>> /\ arrEvent' = "handled"
    /\ UNCHANGED <<selectedAlgorithm, isPlaying, isCompleted, currentStep,
                   totalSteps, stepsRef, animationRef, frames>>
    /\ UNCHANGED arrOthers

\* ---- Algorithm tabs: setSelectedAlgorithm, then resetVisualization
SelectAlgorithm ==
  \E alg \in Algorithms :
    \E newArray \in generateRandomArray(arraySize) :
      /\ selectedAlgorithm' = alg
      /\ array' = newArray
      /\ isPlaying' = FALSE
      /\ isCompleted' = FALSE
      /\ currentStep' = 0
      /\ totalSteps' = 0
      /\ stepsRef' = <<newArray>>
      /\ frames' = IF animationRef # Null THEN CancelFrame(frames, animationRef) ELSE frames
      /\ animationRef' = Null
      /\ arrEvent' = "handled"
      /\ UNCHANGED arraySize
      /\ UNCHANGED arrOthers

ArrNext ==
  \/ PlayVisualization
  \/ AnimationFrame
  \/ PauseVisualization
  \/ HandleStepForward
  \/ HandleStepBackward
  \/ ResetVisualization
  \/ ResetArray
  \/ HandleSizeChange
  \/ SelectAlgorithm

\* the transport together with the two controls that replace the displayed array
ArrEditNext ==
  \/ ArrNext
  \/ Shuffle
  \/ CustomArray

(***************************************************************************)
(* Linked-list visualizer                                                  *)
(***************************************************************************)
ListTypes == {"singly", "doubly", "circular"}

\* the values typed into the node value input
ListValues == {5}

SinglyNode(v, st, nx) == [value |-> v, status |-> st, next |-> nx]

DoublyNode(v, st, nx, pv) == [value |-> v, status |-> st, next |-> nx, prev |-> pv]

\* the initial nodes resetList builds for a list type
initialNodes(type) ==
  IF type = "singly"
  THEN <<SinglyNode(10, "default", 1), SinglyNode(20, "default", 2),
         SinglyNode(30, "default", 3), SinglyNode(40, "default", Null)>>
  ELSE IF type = "doubly"
  THEN <<DoublyNode(10, "default", 1, Null), DoublyNode(20, "default", 2, 0),
         DoublyNode(30, "default", 3, 1), DoublyNode(40, "default", Null, 2)>>
  ELSE <<SinglyNode(10, "default", 1), SinglyNode(20, "default", 2),
         SinglyNode(30, "default", 3), SinglyNode(40, "default", 0)>>

\* s[idx] of the code is an element (not undefined); idx is 0-based
Defined(s, idx) == idx # Null /\ idx >= 0 /\ idx < Len(s)

\* 'prev' in node
HasPrev(node) == "prev" \in DOMAIN node

\* s.filter((_, i) => i !== idx)
RemoveAt(s, idx) ==
  IF Defined(s, idx)
  THEN [k \in 1..(Len(s) - 1) |-> IF k <= idx THEN s[k] ELSE s[k + 1]]
  ELSE s

\* the map of handleAddToHead: every index moves up by one
ShiftUp(node) ==
  LET n1 == IF node.next # Null THEN [node EXCEPT !.next = node.next + 1] ELSE node
  IN IF HasPrev(n1) /\ n1.prev # Null THEN [n1 EXCEPT !.prev = n1.prev + 1] ELSE n1

\* the map of handleRemoveFromHead: indexes above h move down by one
ShiftDown(node, h) ==
  LET n1 == IF node.next # Null /\ node.next > h
            THEN [node EXCEPT !.next = node.next - 1] ELSE node
  IN IF HasPrev(n1) /\ n1.prev # Null /\ n1.prev > h
     THEN [n1 EXCEPT !.prev = n1.prev - 1] ELSE n1

ListIdle ==
  /\ listType = "singly"
  /\ nodes = initialNodes("singly")
  /\ head = 0
  /\ tail = 3
  /\ newNodeValue = <<>>
  /\ listIsAnimating = FALSE
  /\ listTimers = <<>>
  /\ listStale = 0

\* after the mount effect has run resetList
ListInit ==
  /\ listType \in ListTypes
  /\ nodes = initialNodes(listType)
  /\ head = 0
  /\ tail = Len(nodes) - 1
  /\ newNodeValue = <<>>
  /\ listIsAnimating = FALSE
  /\ listTimers = <<>>
  /\ listStale = 0

\* ---- the node value input's onChange
SetNewNodeValue ==
  /\ newNodeValue' \in ({<<>>} \cup {<<v>> : v \in ListValues}) \ {newNodeValue}
  /\ UNCHANGED <<listType, nodes, head, tail, listIsAnimating, listTimers, listStale>>
  /\ UNCHANGED listOthers

\* ---- resetList (the Reset button): isAnimating and a waiting handler are
\* left as they are
ResetList ==
  /\ listTimers = <<>> \/ listStale < MaxListStale
  /\ nodes' = initialNodes(listType)
  /\ head' = 0
  /\ tail' = Len(initialNodes(listType)) - 1
  /\ newNodeValue' = <<>>
  /\ listStale' = IF listTimers = <<>> THEN listStale ELSE listStale + 1
  /\ UNCHANGED <<listType, listIsAnimating, listTimers>>
  /\ UNCHANGED listOthers

\* ---- the type tabs: setListType, then the effect on listType runs resetList
SetListType ==
  \E type \in ListTypes \ {listType} :
    /\ listTimers = <<>> \/ listStale < MaxListStale
    /\ listType' = type
    /\ nodes' = initialNodes(type)
    /\ head' = 0
    /\ tail' = Len(initialNodes(type)) - 1
    /\ newNodeValue' = <<>>
    /\ listStale' = IF listTimers = <<>> THEN listStale ELSE listStale + 1
    /\ UNCHANGED <<listIsAnimating, listTimers>>
    /\ UNCHANGED listOthers

\* ---- handleAddToHead, up to its await.  A TypeError on an undefined
\* element rejects the handler's promise: the updates queued before it are
\* applied and the rest of the handler never runs.
HandleAddToHead ==
  /\ newNodeValue # <<>> /\ ~listIsAnimating
  /\ listStale < MaxListStale
  /\ Len(nodes) < MaxListLen
  /\ LET value        == newNodeValue[1]
         newNode      == IF listType \in {"singly", "circular"}
                         THEN SinglyNode(value, "inserted", head)
                         ELSE DoublyNode(value, "inserted", head, Null)
         oldHeadFix   == listType = "doubly" /\ head # Null
         throwsAt108  == oldHeadFix /\ ~Defined(nodes, head)
         \* oldHead.prev = 0 is written into the node object nodes holds
         marked       == IF oldHeadFix /\ Defined(nodes, head) /\ HasPrev(nodes[head + 1])
                         THEN [nodes EXCEPT ![head + 1].prev = 0]
                         ELSE nodes
         updatedNodes == <<newNode>> \o marked
         shifted      == [k \in 1..Len(updatedNodes) |-> ShiftUp(updatedNodes[k])]
         tailFix      == listType = "circular" /\ tail # Null
         throwsAt134  == tailFix /\ ~Defined(shifted, tail + 1)
         adjustedNodes == IF tailFix /\ Defined(shifted, tail + 1)
                          THEN [shifted EXCEPT ![tail + 2].next = 0]
                          ELSE shifted
     IN /\ listIsAnimating' = TRUE
        /\ IF throwsAt108
           THEN UNCHANGED <<nodes, head, tail, newNodeValue, listTimers>>
           ELSE IF throwsAt134
           THEN /\ nodes' = updatedNodes
                /\ head' = 0
                /\ UNCHANGED <<tail, newNodeValue, listTimers>>
           ELSE /\ nodes' = adjustedNodes
                /\ head' = 0
                /\ tail' = IF tail # Null THEN tail + 1 ELSE 0
                /\ newNodeValue' = <<>>
                /\ listTimers' = Append(listTimers,
                                        [op |-> "addToHead", nodes |-> adjustedNodes])
  /\ listStale' = IF listStale = 0 THEN 0 ELSE listStale + 1
  /\ UNCHANGED listType
  /\ UNCHANGED listOthers

\* ---- handleAddToHead, after its await
AddToHeadResume ==
  /\ listTimers # <<>>
  /\ Head(listTimers).op = "addToHead"
  /\ nodes' = [Head(listTimers).nodes EXCEPT ![1].status = "default"]
  /\ listIsAnimating' = FALSE
  /\ listTimers' = Tail(listTimers)
  /\ UNCHANGED <<listType, head, tail, newNodeValue, listStale>>
  /\ UNCHANGED listOthers

\* ---- handleAddToTail, up to its await
HandleAddToTail ==
  /\ newNodeValue # <<>> /\ ~listIsAnimating
  /\ listStale < MaxListStale
  /\ Len(nodes) < MaxListLen
  /\ LET value        == newNodeValue[1]
         newNode      == IF listType = "singly" THEN SinglyNode(value, "inserted", Null)
                         ELSE IF listType = "doubly"
                         THEN DoublyNode(value, "inserted", Null, tail)
                         ELSE SinglyNode(value, "inserted", head)
         throwsAt171  == tail # Null /\ ~Defined(nodes, tail)
         \* updatedNodes[tail].next is written into the node object nodes holds
         linked       == IF tail # Null /\ Defined(nodes, tail)
                         THEN [nodes EXCEPT ![tail + 1].next = Len(nodes)]
                         ELSE nodes
         updatedNodes == Append(linked, newNode)
     IN /\ listIsAnimating' = TRUE
        /\ IF throwsAt171
           THEN UNCHANGED <<nodes, head, tail, newNodeValue, listTimers>>
           ELSE /\ nodes' = updatedNodes
                /\ head' = IF head = Null THEN 0 ELSE head
                /\ tail' = Len(updatedNodes) - 1
                /\ newNodeValue' = <<>>
                /\ listTimers' = Append(listTimers,
                                        [op |-> "addToTail", nodes |-> updatedNodes])
  /\ listStale' = IF listStale = 0 THEN 0 ELSE listStale + 1
  /\ UNCHANGED listType
  /\ UNCHANGED listOthers

\* ---- handleAddToTail, after its await
AddToTailResume ==
  /\ listTimers # <<>>
  /\ Head(listTimers).op = "addToTail"
  /\ LET finalNodes == Head(listTimers).nodes
     IN nodes' = [finalNodes EXCEPT ![Len(finalNodes)].status = "default"]
  /\ listIsAnimating' = FALSE
  /\ listTimers' = Tail(listTimers)
  /\ UNCHANGED <<listType, head, tail, newNodeValue, listStale>>
  /\ UNCHANGED listOthers

\* ---- handleRemoveFromHead, up to its await
HandleRemoveFromHead ==
  /\ head # Null /\ ~listIsAnimating
  /\ listStale < MaxListStale
  /\ listIsAnimating' = TRUE
  /\ IF ~Defined(nodes, head)
     THEN UNCHANGED <<nodes, listTimers>>
     ELSE LET updatedNodes == [nodes EXCEPT ![head + 1].status = "deleted"]
          IN /\ nodes' = updatedNodes
             /\ listTimers' = Append(listTimers,
                                     [op |-> "removeFromHead", nodes |-> updatedNodes,
                                      head |-> head, tail |-> tail,
                                      listType |-> listType])
  /\ listStale' = IF listStale = 0 THEN 0 ELSE listStale + 1
  /\ UNCHANGED <<listType, head, tail, newNodeValue>>
  /\ UNCHANGED listOthers

\* ---- handleRemoveFromHead, after its await, on what the call captured
RemoveFromHeadResume ==
  /\ listTimers # <<>>
  /\ Head(listTimers).op = "removeFromHead"
  /\ listTimers' = Tail(listTimers)
  /\ LET c       == Head(listTimers)
         newHead == c.nodes[c.head + 1].next
         prevFix == c.listType = "doubly"
         throwsAt211 == prevFix /\ ~Defined(c.nodes, newHead)
         cleared == IF prevFix /\ Defined(c.nodes, newHead) /\ HasPrev(c.nodes[newHead + 1])
                    THEN [c.nodes EXCEPT ![newHead + 1].prev = Null]
                    ELSE c.nodes
         remainingNodes == RemoveAt(cleared, c.head)
         shifted == [k \in 1..Len(remainingNodes) |-> ShiftDown(remainingNodes[k], c.head)]
         tailFix == c.listType = "circular" /\ c.tail # Null
         newTail == IF c.tail > c.head THEN c.tail - 1 ELSE c.tail
         throwsAt232 == tailFix /\ ~Defined(shifted, newTail)
         adjustedNodes == IF tailFix /\ Defined(shifted, newTail)
                          THEN [shifted EXCEPT ![newTail + 1].next = 0]
                          ELSE shifted
     IN IF newHead # Null
        THEN IF throwsAt211 \/ throwsAt232
             THEN UNCHANGED <<nodes, head, tail, listIsAnimating>>
             ELSE /\ nodes' = adjustedNodes
                  /\ head' = 0
                  /\ tail' = IF c.tail # Null /\ c.tail > c.head THEN c.tail - 1
                             ELSE IF c.tail = c.head THEN Null ELSE c.tail
                  /\ listIsAnimating' = FALSE
        ELSE /\ nodes' = <<>>
             /\ head' = Null
             /\ tail' = Null
             /\ listIsAnimating' = FALSE
  /\ UNCHANGED <<listType, newNodeValue, listStale>>
  /\ UNCHANGED listOthers

\* ---- handleRemoveFromTail, up to its await
HandleRemoveFromTail ==
  /\ tail # Null /\ ~listIsAnimating
  /\ listStale < MaxListStale
  /\ listIsAnimating' = TRUE
  /\ IF ~Defined(nodes, tail)
     THEN UNCHANGED <<nodes, listTimers>>
     ELSE LET updatedNodes == [nodes EXCEPT ![tail + 1].status = "deleted"]
          IN /\ nodes' = updatedNodes
             /\ listTimers' = Append(listTimers,
                                     [op |-> "removeFromTail", nodes |-> updatedNodes,
                                      head |-> head, tail |-> tail,
                                      listType |-> listType])
  /\ listStale' = IF listStale = 0 THEN 0 ELSE listStale + 1
  /\ UNCHANGED <<listType, head, tail, newNodeValue>>
  /\ UNCHANGED listOthers

\* ---- handleRemoveFromTail, after its await, on what the call captured
RemoveFromTailResume ==
  /\ listTimers # <<>>
  /\ Head(listTimers).op = "removeFromTail"
  /\ listTimers' = Tail(listTimers)
  /\ LET c     == Head(listTimers)
         preds == {i \in 0..(Len(c.nodes) - 1) : i # c.tail /\ c.nodes[i + 1].next = c.tail}
         newTail == IF preds = {} THEN Null
                    ELSE CHOOSE i \in preds : \A j \in preds : i <= j
         remainingNodes == RemoveAt(c.nodes, c.tail)
         throwsAt280 == newTail # Null /\ ~Defined(remainingNodes, newTail)
         relinked == IF newTail # Null /\ Defined(remainingNodes, newTail)
                     THEN [remainingNodes EXCEPT ![newTail + 1].next =
                             IF c.listType = "circular" THEN c.head ELSE Null]
                     ELSE remainingNodes
     IN IF c.head = c.tail
        THEN /\ nodes' = <<>>
             /\ head' = Null
             /\ tail' = Null
             /\ listIsAnimating' = FALSE
        ELSE IF throwsAt280
             THEN UNCHANGED <<nodes, head, tail, listIsAnimating>>
             ELSE /\ nodes' = relinked
                  /\ tail' = newTail
                  /\ listIsAnimating' = FALSE
                  /\ UNCHANGED head
  /\ UNCHANGED <<listType, newNodeValue, listStale>>
  /\ UNCHANGED listOthers

ListNext ==
  \/ SetNewNodeValue
  \/ ResetList
  \/ SetListType
  \/ HandleAddToHead
  \/ AddToHeadResume
  \/ HandleAddToTail
  \/ AddToTailResume
  \/ HandleRemoveFromHead
  \/ RemoveFromHeadResume
  \/ HandleRemoveFromTail
  \/ RemoveFromTailResume

(***************************************************************************)
(* Hash-table visualizer.  A key is the sequence of its characters; the    *)
(* empty sequence is the empty string (and a null selectedEntry, which the *)
(* code tests the same way).  Entry objects live in hashHeap; entries,     *)
(* buckets and what a waiting handler captured hold references to them, so *)
(* a status written through one reference shows through every other one.  *)
(***************************************************************************)
\* the bucketSize prop's default; the application passes none
bucketSize == 8

Letters == <<"a", "b", "c", "d", "e", "f", "g", "h", "i", "j", "k", "l", "m",
             "n", "o", "p", "q", "r", "s", "t", "u", "v", "w", "x", "y", "z">>

\* key.charCodeAt(i) for the lower-case letters
charCodeAt(c) == 96 + (CHOOSE k \in 1..26 : Letters[k] = c)

\* the loop with the 0-based index as the weight
RECURSIVE HashLoopZeroBased(_, _, _, _)
HashLoopZeroBased(key, i, hash, size) ==
  IF i >= Len(key) THEN hash
  ELSE HashLoopZeroBased(key, i + 1, (hash + charCodeAt(key[i + 1]) * i) % size, size)

RECURSIVE HashLoop(_, _, _, _)
HashLoop(key, i, hash, size) ==
  IF i >= Len(key) THEN hash
  ELSE HashLoop(key, i + 1, (hash + charCodeAt(key[i + 1]) * (i + 1)) % size, size)

hashFunction(key) == HashLoop(key, 0, 0, bucketSize)

\* One call of hashFunction in a component mounted with some bucketSize prop.
MaxKeyLen == 3
MaxBuckets == 9
CallLetters == {"a", "e", "g", "z"}
CallKeys == UNION {[1..n -> CallLetters] : n \in 0..MaxKeyLen}
BucketCounts == 1..MaxBuckets

HashCallIdle == hashCall = [key |-> <<>>, size |-> bucketSize, result |-> Null]

HashCallInit == hashCall \in [key : CallKeys, size : BucketCounts, result : {Null}]

CallHashFunction ==
  /\ hashCall.result = Null
  /\ hashCall' = [hashCall EXCEPT !.result = HashLoop(hashCall.key, 0, 0, hashCall.size)]
  /\ UNCHANGED callOthers

CallNext == CallHashFunction

initialData ==
  << [key |-> <<"n", "a", "m", "e">>, value |-> "John"],
     [key |-> <<"a", "g", "e">>, value |-> "25"],
     [key |-> <<"c", "i", "t", "y">>, value |-> "New York"],
     [key |-> <<"c", "o", "u", "n", "t", "r", "y">>, value |-> "USA"],
     [key |-> <<"j", "o", "b">>, value |-> "Developer"] >>

HashTypes == {"map", "set"}

\* the keys typed into the key input, the keys typed into the search input,
\* and the drawn entries that are clicked
\* (key f maps to bucket 6, which holds age and job: a bucket of three)
HashNewKeys == {<<"f">>, <<"j", "o", "b">>}

HashSearchKeys == {<<"j", "o", "b">>}

HashClickKeys == {<<"f">>, <<"j", "o", "b">>}

\* the texts typed into the value input
HashNewValues == {"v"}

Ids(refs) == {refs[k] : k \in 1..Len(refs)}

RECURSIVE Flatten(_)
Flatten(ss) == IF ss = <<>> THEN <<>> ELSE Head(ss) \o Flatten(Tail(ss))

\* item.status = s for every referenced object
SetStatus(heap, ids, s) ==
  [i \in 1..Len(heap) |-> IF i \in ids THEN [heap[i] EXCEPT !.status = s] ELSE heap[i]]

\* array.findIndex(entry => entry.key === key), 0-based, -1 when there is none
FindIndex(heap, refs, key) ==
  LET hits == {k \in 1..Len(refs) : heap[refs[k]].key = key}
  IN IF hits = {} THEN -1 ELSE (CHOOSE k \in hits : \A j \in hits : k <= j) - 1

\* array.filter(entry => entry.key !== key)
FilterKey(heap, refs, key) == SelectSeq(refs, LAMBDA r : heap[r].key # key)

\* the references a waiting handler holds
TimerRefs(t) ==
  Flatten(t.buckets) \o (IF "entries" \in DOMAIN t THEN t.entries ELSE <<>>)

RECURSIVE TimersRefs(_)
TimersRefs(ts) == IF ts = <<>> THEN <<>> ELSE TimerRefs(Head(ts)) \o TimersRefs(Tail(ts))

\* the distinct references of refs, in the order refs meets them
RECURSIVE Distinct(_, _)
Distinct(refs, seen) ==
  IF refs = <<>> THEN seen
  ELSE Distinct(Tail(refs), IF Head(refs) \in Ids(seen) THEN seen
                            ELSE Append(seen, Head(refs)))

\* Objects no reference reaches are dropped and the others renumbered in the
\* order the references meet them: which number names an object is not
\* observable.  st = [heap, entries, buckets, timers]
Compact(st) ==
  LET order   == Distinct(st.entries \o Flatten(st.buckets) \o TimersRefs(st.timers), <<>>)
      new     == [id \in Ids(order) |-> CHOOSE n \in 1..Len(order) : order[n] = id]
      ren(seq) == [k \in 1..Len(seq) |-> new[seq[k]]]
      renB(bks) == [b \in 1..Len(bks) |-> ren(bks[b])]
      renT(t) == IF "entries" \in DOMAIN t
                 THEN [t EXCEPT !.buckets = renB(@), !.entries = ren(@)]
                 ELSE [t EXCEPT !.buckets = renB(@)]
  IN [heap    |-> [n \in 1..Len(order) |-> st.heap[order[n]]],
      entries |-> ren(st.entries),
      buckets |-> renB(st.buckets),
      timers  |-> [k \in 1..Len(st.timers) |-> renT(st.timers[k])]]

\* resetHashTable's forEach over initialData, from its k-th pair on
RECURSIVE ResetFill(_, _)
ResetFill(k, st) ==
  IF k > Len(initialData) THEN st
  ELSE LET entry == Len(st.heap) + 1
           heap1 == Append(st.heap, [key |-> initialData[k].key,
                                     value |-> initialData[k].value,
                                     status |-> "default"])
           b     == hashFunction(initialData[k].key) + 1
           bks   == [st.buckets EXCEPT ![b] = Append(@, entry)]
           heap2 == IF Len(bks[b]) > 1 THEN SetStatus(heap1, Ids(bks[b]), "collision")
                    ELSE heap1
       IN ResetFill(k + 1, [st EXCEPT !.heap = heap2, !.buckets = bks,
                                      !.entries = Append(@, entry)])

\* the heap, buckets and entries resetHashTable leaves, with the waiting
\* handlers and the objects they hold kept
resetHashTable(heap, timers) ==
  Compact(ResetFill(1, [heap |-> heap, entries |-> <<>>,
                        buckets |-> [b \in 1..bucketSize |-> <<>>],
                        timers |-> timers]))

\* array.map(item => ({...item, status: ...})): a copy of every referenced
\* object, the k-th with status sts[k]; [heap, refs] with the copies' references
CopyWithStatus(heap, refs, sts) ==
  [heap |-> heap \o [k \in 1..Len(refs) |-> [heap[refs[k]] EXCEPT !.status = sts[k]]],
   refs |-> [k \in 1..Len(refs) |-> Len(heap) + k]]

\* the status the handlers give the entries of a bucket of n entries
ByLength(n) == IF n > 1 THEN "collision" ELSE "default"

RemoveTimer(ts, n) == [k \in 1..(Len(ts) - 1) |-> IF k < n THEN ts[k] ELSE ts[k + 1]]

\* after the mount effect has run resetHashTable; the application passes no
\* type, so the table starts as a map
HashInit ==
  /\ hashType = "map"
  /\ LET st == resetHashTable(<<>>, <<>>)
     IN /\ hashHeap = st.heap
        /\ entries = st.entries
        /\ buckets = st.buckets
  /\ newKey = <<>>
  /\ newValue = ""
  /\ searchKey = <<>>
  /\ selectedEntry = <<>>
  /\ hashIsAnimating = FALSE
  /\ hashTimers = <<>>
  /\ hashEvent = "handled"
  /\ hashStale = 0

\* ---- the inputs' onChange handlers
SetNewKey ==
  /\ newKey' \in ({<<>>} \cup HashNewKeys) \ {newKey}
  /\ hashEvent' = "handled"
  /\ UNCHANGED <<hashType, entries, buckets, hashHeap, newValue, searchKey,
                 selectedEntry, hashIsAnimating, hashTimers, hashStale>>
  /\ UNCHANGED hashOthers

\* the value input is rendered for a map only
SetNewValue ==
  /\ hashType = "map"
  /\ newValue' \in ({""} \cup HashNewValues) \ {newValue}
  /\ hashEvent' = "handled"
  /\ UNCHANGED <<hashType, entries, buckets, hashHeap, newKey, searchKey,
                 selectedEntry, hashIsAnimating, hashTimers, hashStale>>
  /\ UNCHANGED hashOthers

SetSearchKey ==
  /\ searchKey' \in ({<<>>} \cup HashSearchKeys) \ {searchKey}
  /\ hashEvent' = "handled"
  /\ UNCHANGED <<hashType, entries, buckets, hashHeap, newKey, newValue,
                 selectedEntry, hashIsAnimating, hashTimers, hashStale>>
  /\ UNCHANGED hashOthers

\* ---- handleEntryClick, on an entry drawn in a bucket
HandleEntryClick ==
  \E key \in HashClickKeys :
    /\ \E r \in Ids(Flatten(buckets)) : hashHeap[r].key = key
    /\ selectedEntry' = IF selectedEntry = key THEN <<>> ELSE key
    /\ hashEvent' = "handled"
    /\ UNCHANGED <<hashType, entries, buckets, hashHeap, newKey, newValue, searchKey,
                   hashIsAnimating, hashTimers, hashStale>>
    /\ UNCHANGED hashOthers

\* ---- resetHashTable (the Reset buttons): a waiting handler is left waiting
ResetHashTable ==
  /\ hashTimers = <<>> \/ hashStale < MaxHashStale
  /\ LET st == resetHashTable(hashHeap, hashTimers)
     IN /\ hashHeap' = st.heap
        /\ entries' = st.entries
        /\ buckets' = st.buckets
        /\ hashTimers' = st.timers
  /\ newKey' = <<>>
  /\ newValue' = ""
  /\ searchKey' = <<>>
  /\ selectedEntry' = <<>>
  /\ hashIsAnimating' = FALSE
  /\ hashEvent' = "handled"
  /\ hashStale' = IF hashTimers = <<>> THEN hashStale ELSE hashStale + 1
  /\ UNCHANGED hashType
  /\ UNCHANGED hashOthers

\* ---- the type tabs: setHashType, then the effect on hashType runs
\* resetHashTable
SetHashType ==
  \E type \in HashTypes \ {hashType} :
    /\ hashTimers = <<>> \/ hashStale < MaxHashStale
    /\ hashType' = type
    /\ LET st == resetHashTable(hashHeap, hashTimers)
       IN /\ hashHeap' = st.heap
          /\ entries' = st.entries
          /\ buckets' = st.buckets
          /\ hashTimers' = st.timers
    /\ newKey' = <<>>
    /\ newValue' = ""
    /\ searchKey' = <<>>
    /\ selectedEntry' = <<>>
    /\ hashIsAnimating' = FALSE
    /\ hashEvent' = "handled"
    /\ hashStale' = IF hashTimers = <<>> THEN hashStale ELSE hashStale + 1
    /\ UNCHANGED hashOthers

\* ---- handleAddEntry, up to its await
HandleAddEntry ==
  /\ newKey # <<>> /\ ~(hashType = "map" /\ newValue = "") /\ ~hashIsAnimating
  /\ hashStale < MaxHashStale
  /\ IF \E k \in 1..Len(entries) : hashHeap[entries[k]].key = newKey
     THEN /\ hashEvent' = "duplicate"
          /\ UNCHANGED <<entries, buckets, hashHeap, newKey, newValue, selectedEntry,
                         hashIsAnimating, hashTimers, hashStale>>
     ELSE LET newEntry == Len(hashHeap) + 1
              heap1 == Append(hashHeap,
                              [key |-> newKey,
                               value |-> IF hashType = "map" THEN newValue ELSE "true",
                               status |-> "active"])
              b == hashFunction(newKey) + 1
              updatedBuckets == [buckets EXCEPT ![b] = Append(@, newEntry)]
              heap2 == IF Len(updatedBuckets[b]) > 1
                       THEN SetStatus(heap1, Ids(updatedBuckets[b]), "collision")
                       ELSE heap1
              st == Compact([heap |-> heap2,
                             entries |-> Append(entries, newEntry),
                             buckets |-> updatedBuckets,
                             timers |-> Append(hashTimers,
                                               [op |-> "add", buckets |-> updatedBuckets,
                                                bucketIndex |-> b - 1])])
          IN /\ hashHeap' = st.heap
             /\ entries' = st.entries
             /\ buckets' = st.buckets
             /\ hashTimers' = st.timers
             /\ selectedEntry' = newKey
             /\ newKey' = <<>>
             /\ newValue' = ""
             /\ hashIsAnimating' = TRUE
             /\ hashEvent' = "handled"
             /\ hashStale' = IF hashStale = 0 THEN 0 ELSE hashStale + 1
  /\ UNCHANGED <<hashType, searchKey>>
  /\ UNCHANGED hashOthers

\* ---- handleAddEntry, after its await, on the buckets the call captured.
\* Handlers that wait together were started at different speeds and may end
\* in either order.
AddEntryResume ==
  \E n \in 1..Len(hashTimers) :
    /\ hashTimers[n].op = "add"
    /\ LET t  == hashTimers[n]
           b  == t.bucketIndex + 1
           cp == CopyWithStatus(hashHeap, t.buckets[b],
                                [k \in 1..Len(t.buckets[b]) |-> ByLength(Len(t.buckets[b]))])
           finalBuckets == [t.buckets EXCEPT ![b] = cp.refs]
           st == Compact([heap |-> cp.heap, entries |-> entries,
                          buckets |-> finalBuckets,
                          timers |-> RemoveTimer(hashTimers, n)])
       IN /\ hashHeap' = st.heap
          /\ entries' = st.entries
          /\ buckets' = st.buckets
          /\ hashTimers' = st.timers
    /\ hashIsAnimating' = FALSE
    /\ UNCHANGED <<hashType, newKey, newValue, searchKey, selectedEntry, hashEvent,
                   hashStale>>
    /\ UNCHANGED hashOthers

\* ---- handleRemoveEntry(selectedEntry) (the Remove Selected button), up to
\* its await
HandleRemoveEntry ==
  /\ selectedEntry # <<>> /\ ~hashIsAnimating
  /\ hashStale < MaxHashStale
  /\ LET keyToRemove == selectedEntry
         entryIndex  == FindIndex(hashHeap, entries, keyToRemove)
         bucketIndex == hashFunction(keyToRemove)
         entryInBucketIndex == FindIndex(hashHeap, buckets[bucketIndex + 1], keyToRemove)
         heap1 == IF entryInBucketIndex # -1
                  THEN SetStatus(hashHeap,
                                 {buckets[bucketIndex + 1][entryInBucketIndex + 1],
                                  entries[entryIndex + 1]}, "deleted")
                  ELSE hashHeap
     IN IF entryIndex = -1
        THEN /\ hashIsAnimating' = FALSE
             /\ hashEvent' = "missing"
             /\ UNCHANGED <<entries, buckets, hashHeap, hashTimers, hashStale>>
        ELSE /\ hashIsAnimating' = TRUE
             /\ hashEvent' = "handled"
             /\ hashHeap' = heap1
             /\ hashTimers' = Append(hashTimers,
                                     [op |-> "remove", buckets |-> buckets,
                                      entries |-> entries, key |-> keyToRemove,
                                      bucketIndex |-> bucketIndex])
             /\ hashStale' = IF hashStale = 0 THEN 0 ELSE hashStale + 1
             /\ UNCHANGED <<entries, buckets>>
  /\ UNCHANGED <<hashType, newKey, newValue, searchKey, selectedEntry>>
  /\ UNCHANGED hashOthers

\* ---- handleRemoveEntry, after its await, on the buckets and entries the
\* call captured
RemoveEntryResume ==
  \E n \in 1..Len(hashTimers) :
    /\ hashTimers[n].op = "remove"
    /\ LET t     == hashTimers[n]
           b     == t.bucketIndex + 1
           kept  == FilterKey(hashHeap, t.buckets[b], t.key)
           heap1 == IF Len(kept) <= 1 THEN SetStatus(hashHeap, Ids(kept), "default")
                    ELSE hashHeap
           st == Compact([heap |-> heap1,
                          entries |-> FilterKey(hashHeap, t.entries, t.key),
                          buckets |-> [t.buckets EXCEPT ![b] = kept],
                          timers |-> RemoveTimer(hashTimers, n)])
       IN /\ hashHeap' = st.heap
          /\ entries' = st.entries
          /\ buckets' = st.buckets
          /\ hashTimers' = st.timers
    /\ selectedEntry' = <<>>
    /\ hashIsAnimating' = FALSE
    /\ UNCHANGED <<hashType, newKey, newValue, searchKey, hashEvent, hashStale>>
    /\ UNCHANGED hashOthers

\* ---- handleSearch, up to its await
HandleSearch ==
  /\ searchKey # <<>> /\ ~hashIsAnimating
  /\ hashStale < MaxHashStale
  /\ LET b == hashFunction(searchKey) + 1
         crowded == UNION {Ids(buckets[k]) : k \in {m \in 1..Len(buckets) : Len(buckets[m]) > 1}}
         heap1 == [i \in 1..Len(hashHeap) |->
                     IF i \in Ids(Flatten(buckets))
                     THEN [hashHeap[i] EXCEPT !.status =
                             IF i \in crowded THEN "collision" ELSE "default"]
                     ELSE hashHeap[i]]
         cp == CopyWithStatus(heap1, buckets[b], [k \in 1..Len(buckets[b]) |-> "active"])
         updatedBuckets == [buckets EXCEPT ![b] = cp.refs]
         st == Compact([heap |-> cp.heap, entries |-> entries,
                        buckets |-> updatedBuckets,
                        timers |-> Append(hashTimers,
                                          [op |-> "search", buckets |-> updatedBuckets,
                                           bucketIndex |-> b - 1, key |-> searchKey])])
     IN /\ hashHeap' = st.heap
        /\ entries' = st.entries
        /\ buckets' = st.buckets
        /\ hashTimers' = st.timers
  /\ hashIsAnimating' = TRUE
  /\ hashEvent' = "handled"
  /\ hashStale' = IF hashStale = 0 THEN 0 ELSE hashStale + 1
  /\ UNCHANGED <<hashType, newKey, newValue, searchKey, selectedEntry>>
  /\ UNCHANGED hashOthers

\* ---- handleSearch, after its await, on the buckets and key the call captured
SearchResume ==
  \E n \in 1..Len(hashTimers) :
    /\ hashTimers[n].op = "search"
    /\ LET t  == hashTimers[n]
           b  == t.bucketIndex + 1
           foundEntryIndex == FindIndex(hashHeap, t.buckets[b], t.key)
           cp == CopyWithStatus(hashHeap, t.buckets[b],
                   [k \in 1..Len(t.buckets[b]) |->
                      IF foundEntryIndex # -1 /\ k - 1 = foundEntryIndex THEN "active"
                      ELSE ByLength(Len(t.buckets[b]))])
           st == Compact([heap |-> cp.heap, entries |-> entries,
                          buckets |-> [t.buckets EXCEPT ![b] = cp.refs],
                          timers |-> RemoveTimer(hashTimers, n)])
       IN /\ hashHeap' = st.heap
          /\ entries' = st.entries
          /\ buckets' = st.buckets
          /\ hashTimers' = st.timers
          /\ selectedEntry' = IF foundEntryIndex # -1 THEN t.key ELSE selectedEntry
    /\ hashIsAnimating' = FALSE
    /\ UNCHANGED <<hashType, newKey, newValue, searchKey, hashEvent, hashStale>>
    /\ UNCHANGED hashOthers

HashNext ==
  \/ SetNewKey
  \/ SetNewValue
  \/ SetSearchKey
  \/ HandleEntryClick
  \/ ResetHashTable
  \/ SetHashType
  \/ HandleAddEntry
  \/ AddEntryResume
  \/ HandleRemoveEntry
  \/ RemoveEntryResume
  \/ HandleSearch
  \/ SearchResume

(***************************************************************************)
(* Binary-tree visualizer.  A tree is <<>> (null) or <<node>>, a node a     *)
(* record [id, value, status, height, left, right] whose left and right are *)
(* trees.  The fields parent and balanceFactor are written and never read   *)
(* by a reachable statement; they are left out.  A pending setTimeout is a  *)
(* record [kind, value, branch, path, id, ref]:                             *)
(*   kind   "insertWalk", "inserted", "rootInserted", "searchWalk" or       *)
(*          "highlight";                                                    *)
(*   value  the value the walk carries;                                     *)
(*   branch the captured node and, below it, the nodes of the captured tree *)
(*          the walk will step to (the walk reads the id and the value of   *)
(*          these nodes and nothing else of the captured tree);             *)
(*   path   the values of the captured path nodes;                          *)
(*   id     the id of the node the walk created, 0 for none;                *)
(*   ref    whether highlightTimeoutRef.current holds this timer.           *)
(* The timers that only pan the view (400 ms) and then start a second timer *)
(* are folded into that second timer; d3TreeRef.current is set for as long  *)
(* as the component is mounted.                                             *)
(***************************************************************************)
TreeValues == 1..MaxTreeVal

\* createRandomTree's node counts (5..11 in the code, scaled to the values)
TreeCounts == {2, 3}

TreeInputs == {<<>>} \cup {<<v>> : v \in TreeValues}

\* useState(''): setValueToDelete is only ever called with ''
valueToDelete == <<>>

Max(a, b) == IF a >= b THEN a ELSE b

Height(node) == IF node = <<>> THEN 0 ELSE node[1].height

NewTreeNode(id, value, status) ==
  <<[id |-> id, value |-> value, status |-> status, height |-> 1,
     left |-> <<>>, right |-> <<>>]>>

Timer(kind, value, branch, path, id, ref) ==
  [kind |-> kind, value |-> value, branch |-> branch, path |-> path,
   id |-> id, ref |-> ref]

RECURSIVE TreeIds(_)
TreeIds(node) ==
  IF node = <<>> THEN <<>>
  ELSE <<node[1].id>> \o TreeIds(node[1].left) \o TreeIds(node[1].right)

RECURSIVE TreeTimersIds(_)
TreeTimersIds(ts) ==
  IF ts = <<>> THEN <<>>
  ELSE [k \in 1..Len(ts[1].branch) |-> ts[1].branch[k].id]
       \o (IF ts[1].id = 0 THEN <<>> ELSE <<ts[1].id>>)
       \o TreeTimersIds(Tail(ts))

RECURSIVE RenameTree(_, _)
RenameTree(node, new) ==
  IF node = <<>> THEN <<>>
  ELSE <<[node[1] EXCEPT !.id = new[@],
                         !.left = RenameTree(@, new),
                         !.right = RenameTree(@, new)]>>

\* Node ids are random strings that are only compared for equality: the ids
\* are renumbered in the order the tree (pre-order) and then the timers meet
\* them.
TreeCanon(r, ts) ==
  LET order == Distinct(TreeIds(r) \o TreeTimersIds(ts), <<>>)
      new   == [id \in Ids(order) |-> CHOOSE n \in 1..Len(order) : order[n] = id]
      renT(t) == [t EXCEPT !.branch = [k \in 1..Len(@) |-> [@[k] EXCEPT !.id = new[@]]],
                           !.id = IF @ = 0 THEN 0 ELSE new[@]]
  IN [root |-> RenameTree(r, new), timers |-> [k \in 1..Len(ts) |-> renT(ts[k])]]

\* an id no node and no timer holds
createNodeId(r, ts) == Len(Distinct(TreeIds(r) \o TreeTimersIds(ts), <<>>)) + 1

RECURSIVE valueExists(_, _)
valueExists(node, val) ==
  IF node = <<>> THEN FALSE
  ELSE \/ node[1].value = val
       \/ valueExists(node[1].left, val)
       \/ valueExists(node[1].right, val)

RECURSIVE insertDuplicateRight(_, _, _)
insertDuplicateRight(node, value, id) ==
  IF node = <<>> THEN NewTreeNode(id, value, "default")
  ELSE IF value < node[1].value
       THEN LET newLeft == insertDuplicateRight(node[1].left, value, id)
            IN <<[node[1] EXCEPT !.left = newLeft,
                                 !.height = Max(Height(node[1].right), Height(newLeft)) + 1]>>
       ELSE LET newRight == insertDuplicateRight(node[1].right, value, id)
            IN <<[node[1] EXCEPT !.right = newRight,
                                 !.height = Max(Height(node[1].left), Height(newRight)) + 1]>>

RECURSIVE insertNodeDirectly(_, _, _)
insertNodeDirectly(node, value, id) ==
  IF node = <<>> THEN NewTreeNode(id, value, "default")
  ELSE IF value < node[1].value
       THEN LET newLeft == insertNodeDirectly(node[1].left, value, id)
            IN <<[node[1] EXCEPT !.left = newLeft,
                                 !.height = Max(Height(node[1].right), Height(newLeft)) + 1]>>
       ELSE IF value > node[1].value
            THEN LET newRight == insertNodeDirectly(node[1].right, value, id)
                 IN <<[node[1] EXCEPT !.right = newRight,
                                      !.height = Max(Height(node[1].left), Height(newRight)) + 1]>>
            ELSE node

\* updateStatus of the walks: the first node with the id gets the status and
\* its subtree is kept as it is
RECURSIVE updateStatus(_, _, _)
updateStatus(n, targetId, newStatus) ==
  IF n = <<>> THEN <<>>
  ELSE IF n[1].id = targetId THEN <<[n[1] EXCEPT !.status = newStatus]>>
       ELSE <<[n[1] EXCEPT !.left = updateStatus(@, targetId, newStatus),
                           !.right = updateStatus(@, targetId, newStatus)]>>

\* updateNodeStatus (insert) and updateNode (click): one node gets the
\* status, every other node default
RECURSIVE updateNodeStatus(_, _, _)
updateNodeStatus(n, nodeId, status) ==
  IF n = <<>> THEN <<>>
  ELSE <<[n[1] EXCEPT !.status = IF n[1].id = nodeId THEN status ELSE "default",
                      !.left = updateNodeStatus(@, nodeId, status),
                      !.right = updateNodeStatus(@, nodeId, status)]>>

RECURSIVE resetStatus(_)
resetStatus(n) ==
  IF n = <<>> THEN <<>>
  ELSE <<[n[1] EXCEPT !.status = "default",
                      !.left = resetStatus(@),
                      !.right = resetStatus(@)]>>

\* the nodes a walk for value meets from node on: their ids and values
RECURSIVE Branch(_, _)
Branch(node, value) ==
  IF node = <<>> THEN <<>>
  ELSE <<[id |-> node[1].id, value |-> node[1].value]>>
       \o (IF value = node[1].value THEN <<>>
           ELSE IF value < node[1].value THEN Branch(node[1].left, value)
           ELSE Branch(node[1].right, value))

\* The updater that attaches newNode: from current it follows the directions
\* between consecutive path values (the code's loop counter is i - 1) and
\* sets the left or right child of the node it arrives at.  ok is FALSE when
\* it dereferences null (TypeError).
RECURSIVE Navigate(_, _, _, _, _)
Navigate(current, path, i, value, newNode) ==
  IF current = <<>> THEN [ok |-> FALSE, tree |-> <<>>]
  ELSE IF i < Len(path)
       THEN IF path[i + 1] < path[i]
            THEN LET sub == Navigate(current[1].left, path, i + 1, value, newNode)
                 IN [ok |-> sub.ok, tree |-> <<[current[1] EXCEPT !.left = sub.tree]>>]
            ELSE LET sub == Navigate(current[1].right, path, i + 1, value, newNode)
                 IN [ok |-> sub.ok, tree |-> <<[current[1] EXCEPT !.right = sub.tree]>>]
       ELSE IF value < path[Len(path)]
            THEN [ok |-> TRUE, tree |-> <<[current[1] EXCEPT !.left = newNode]>>]
            ELSE [ok |-> TRUE, tree |-> <<[current[1] EXCEPT !.right = newNode]>>]

AttachNewNode(prevRoot, path, value, newNode) ==
  IF prevRoot = <<>> THEN [ok |-> TRUE, tree |-> newNode]
  ELSE IF path = <<>> THEN [ok |-> TRUE, tree |-> prevRoot]
  ELSE Navigate(prevRoot, path, 1, value, newNode)

RECURSIVE SortedValues(_)
SortedValues(S) ==
  IF S = {} THEN <<>>
  ELSE LET m == CHOOSE x \in S : \A y \in S : x <= y
       IN <<m>> \o SortedValues(S \ {m})

\* the order insertBalanced inserts arr[start..end] in (0-based indexes)
RECURSIVE insertBalanced(_, _, _)
insertBalanced(arr, start, end) ==
  IF start > end THEN <<>>
  ELSE LET mid == (start + end) \div 2
       IN <<arr[mid + 1]>> \o insertBalanced(arr, start, mid - 1)
                           \o insertBalanced(arr, mid + 1, end)

\* handleInsert(value, false) for each value in turn.  createRandomTree holds
\* the handleInsert of the first render, whose root is null, so the duplicate
\* check of the batch path never rejects; the updaters run on the tree so far.
RECURSIVE InsertBatch(_, _, _)
InsertBatch(prevRoot, vals, id) ==
  IF vals = <<>> THEN prevRoot
  ELSE InsertBatch(insertNodeDirectly(prevRoot, Head(vals), id), Tail(vals), id + 1)

RandomTrees(firstId) ==
  {InsertBatch(<<>>, insertBalanced(SortedValues(S), 0, Cardinality(S) - 1), firstId) :
     S \in {T \in SUBSET TreeValues : Cardinality(T) \in TreeCounts}}

\* clearTimeout(highlightTimeoutRef.current); highlightTimeoutRef.current = null
ClearHighlight(ts) == SelectSeq(ts, LAMBDA t : ~t.ref)

\* highlightTimeoutRef.current = null, or = another timer
DropRef(ts) == [k \in 1..Len(ts) |-> [ts[k] EXCEPT !.ref = FALSE]]

WithoutTimer(ts, n) == [k \in 1..(Len(ts) - 1) |-> IF k < n THEN ts[k] ELSE ts[k + 1]]

NoBranch == <<>>

\* the state after construction, before the mount effect
TreeIdle ==
  /\ root = <<>>
  /\ treeIsAnimating = FALSE
  /\ inputValue = <<>>
  /\ treeTimers = <<>>
  /\ treeCrashed = FALSE
  /\ treeEvent = "handled"
  /\ treeStale = 0

\* the mount effect has run createRandomTree
TreeInit ==
  /\ root \in RandomTrees(1)
  /\ treeIsAnimating = FALSE
  /\ inputValue = <<>>
  /\ treeTimers = <<>>
  /\ treeCrashed = FALSE
  /\ treeEvent = "handled"
  /\ treeStale = 0

\* root and timers after a handler or a timer callback
TreeCommit(r, ts) ==
  /\ root' = TreeCanon(r, ts).root
  /\ treeTimers' = TreeCanon(r, ts).timers

\* the budget of a request that starts a walk
TreeRequestStale == IF treeStale = 0 THEN 0 ELSE treeStale + 1

\* the budget of a Clear or Random Tree that leaves timers ts pending
TreeResetStale(ts) == IF ts = <<>> THEN treeStale ELSE treeStale + 1

SetInputValue ==
  \E v \in TreeInputs :
    /\ ~treeCrashed
    /\ inputValue' = v
    /\ UNCHANGED <<root, treeIsAnimating, treeTimers, treeCrashed, treeStale>>
    /\ treeEvent' = "handled"
    /\ UNCHANGED treeOthers

CreateRandomTree ==
  \E t \in RandomTrees(createNodeId(root, treeTimers)) :
    /\ ~treeCrashed
    /\ ClearHighlight(treeTimers) = <<>> \/ treeStale < MaxTreeStale
    /\ TreeCommit(t, ClearHighlight(treeTimers))
    /\ treeStale' = TreeResetStale(ClearHighlight(treeTimers))
    /\ UNCHANGED <<treeIsAnimating, inputValue, treeCrashed>>
    /\ treeEvent' = "handled"
    /\ UNCHANGED treeOthers

HandleClear ==
  /\ ~treeCrashed
  /\ treeTimers = <<>> \/ treeStale < MaxTreeStale
  /\ TreeCommit(<<>>, treeTimers)
  /\ treeIsAnimating' = FALSE
  /\ treeStale' = TreeResetStale(treeTimers)
  /\ UNCHANGED <<inputValue, treeCrashed>>
  /\ treeEvent' = "handled"
  /\ UNCHANGED treeOthers

\* handleInsert(inputValue, true), the Insert button (disabled while
\* isAnimating)
HandleInsert ==
  /\ ~treeCrashed
  /\ ~treeIsAnimating
  /\ treeStale < MaxTreeStale
  /\ Len(treeTimers) < MaxTreeTimers
  /\ IF inputValue = <<>>
     THEN /\ UNCHANGED <<root, treeIsAnimating, inputValue, treeTimers, treeCrashed, treeStale>>
     ELSE LET value == inputValue[1]
              kept  == ClearHighlight(treeTimers)
              newId == createNodeId(root, kept)
          IN /\ treeIsAnimating' = TRUE
             /\ UNCHANGED <<inputValue, treeCrashed>>
             /\ IF root # <<>> /\ valueExists(root, value)
                THEN /\ TreeCommit(root, kept)
                     /\ UNCHANGED treeStale
                ELSE /\ treeStale' = TreeRequestStale
                     /\ IF root = <<>>
                        THEN TreeCommit(NewTreeNode(newId, value, "inserting"),
                                        Append(kept, Timer("rootInserted", value, NoBranch, <<>>, 0, FALSE)))
                        ELSE TreeCommit(updateStatus(root, root[1].id, "visiting"),
                                        Append(kept, Timer("insertWalk", value, Branch(root, value), <<>>, 0, FALSE)))
  /\ treeEvent' = "handled"
  /\ UNCHANGED treeOthers

\* the 800 ms timer of animateInsertion and the animateInsertion call it makes
InsertWalkStep ==
  \E n \in 1..Len(treeTimers) :
    LET t     == treeTimers[n]
        node  == t.branch[1]
        child == Tail(t.branch)
        path  == Append(t.path, node.value)
        newId == createNodeId(root, treeTimers)
        att   == AttachNewNode(root, path, t.value, NewTreeNode(newId, t.value, "inserting"))
    IN /\ ~treeCrashed
       /\ t.kind = "insertWalk"
       /\ IF t.value = node.value
          THEN /\ TreeCommit(resetStatus(root), WithoutTimer(treeTimers, n))
               /\ treeIsAnimating' = FALSE
               /\ UNCHANGED treeCrashed
          ELSE IF child # <<>>
          THEN /\ TreeCommit(updateStatus(root, child[1].id, "visiting"),
                             [treeTimers EXCEPT ![n] = Timer("insertWalk", t.value, child, path, 0, FALSE)])
               /\ UNCHANGED <<treeIsAnimating, treeCrashed>>
          ELSE IF att.ok
          THEN /\ TreeCommit(att.tree,
                             [treeTimers EXCEPT ![n] = Timer("inserted", t.value, NoBranch, <<>>, newId, FALSE)])
               /\ UNCHANGED <<treeIsAnimating, treeCrashed>>
          ELSE \* the updater throws while rendering: React unmounts the tree
               /\ treeCrashed' = TRUE
               /\ treeTimers' = <<>>
               /\ UNCHANGED <<root, treeIsAnimating>>
       /\ UNCHANGED <<inputValue, treeStale>>
       /\ UNCHANGED treeEvent
       /\ UNCHANGED treeOthers

\* the 1200 ms timer after the attach
InsertedStep ==
  \E n \in 1..Len(treeTimers) :
    /\ ~treeCrashed
    /\ treeTimers[n].kind = "inserted"
    /\ TreeCommit(updateNodeStatus(root, treeTimers[n].id, "found"),
                  [DropRef(treeTimers) EXCEPT ![n] = Timer("highlight", 0, NoBranch, <<>>, 0, TRUE)])
    /\ treeIsAnimating' = FALSE
    /\ UNCHANGED <<inputValue, treeCrashed, treeStale>>
    /\ UNCHANGED treeEvent
    /\ UNCHANGED treeOthers

\* the 1000 ms timer of an insert into the empty tree
RootInsertedStep ==
  \E n \in 1..Len(treeTimers) :
    /\ ~treeCrashed
    /\ treeTimers[n].kind = "rootInserted"
    /\ TreeCommit(IF root = <<>> THEN <<>> ELSE <<[root[1] EXCEPT !.status = "default"]>>,
                  WithoutTimer(treeTimers, n))
    /\ treeIsAnimating' = FALSE
    /\ UNCHANGED <<inputValue, treeCrashed, treeStale>>
    /\ UNCHANGED treeEvent
    /\ UNCHANGED treeOthers

\* the 3000 ms timer that ends a highlight
HighlightElapsed ==
  \E n \in 1..Len(treeTimers) :
    /\ ~treeCrashed
    /\ treeTimers[n].kind = "highlight"
    /\ TreeCommit(resetStatus(root), WithoutTimer(DropRef(treeTimers), n))
    /\ UNCHANGED <<treeIsAnimating, inputValue, treeCrashed, treeStale>>
    /\ UNCHANGED treeEvent
    /\ UNCHANGED treeOthers

\* handleSearch of the tree, the Search button (disabled while isAnimating)
HandleTreeSearch ==
  /\ ~treeCrashed
  /\ ~treeIsAnimating
  /\ treeStale < MaxTreeStale
  /\ Len(treeTimers) < MaxTreeTimers
  /\ IF inputValue = <<>>
     THEN /\ UNCHANGED <<root, treeIsAnimating, inputValue, treeTimers, treeCrashed, treeStale>>
     ELSE /\ treeIsAnimating' = TRUE
          /\ UNCHANGED treeCrashed
          /\ IF root = <<>>
             THEN /\ UNCHANGED <<root, inputValue, treeTimers, treeStale>>
             ELSE /\ TreeCommit(updateStatus(root, root[1].id, "visiting"),
                                Append(treeTimers,
                                       Timer("searchWalk", inputValue[1], Branch(root, inputValue[1]), <<>>, 0, FALSE)))
                  /\ inputValue' = <<>>
                  /\ treeStale' = TreeRequestStale
  /\ treeEvent' = "handled"
  /\ UNCHANGED treeOthers

\* the 800 ms timer of animateSearch and the animateSearch call it makes
SearchWalkStep ==
  \E n \in 1..Len(treeTimers) :
    LET t     == treeTimers[n]
        node  == t.branch[1]
        child == Tail(t.branch)
    IN /\ ~treeCrashed
       /\ t.kind = "searchWalk"
       /\ IF node.value = t.value
          THEN /\ TreeCommit(updateStatus(root, node.id, "found"),
                             [DropRef(treeTimers) EXCEPT ![n] = Timer("highlight", 0, NoBranch, <<>>, 0, TRUE)])
               /\ treeIsAnimating' = FALSE
          ELSE IF child = <<>>
          THEN /\ TreeCommit(root, WithoutTimer(treeTimers, n))
               /\ treeIsAnimating' = FALSE
          ELSE /\ TreeCommit(updateStatus(root, child[1].id, "visiting"),
                             [treeTimers EXCEPT ![n] = Timer("searchWalk", t.value, child, <<>>, 0, FALSE)])
               /\ UNCHANGED treeIsAnimating
       /\ UNCHANGED <<inputValue, treeCrashed, treeStale>>
       /\ UNCHANGED treeEvent
       /\ UNCHANGED treeOthers

\* handleDelete, the Delete button (disabled while isAnimating): the Delete
\* input writes inputValue, so valueToDelete is empty and the handler returns
\* at its first check
HandleDelete ==
  /\ ~treeCrashed
  /\ ~treeIsAnimating
  /\ valueToDelete = <<>>
  /\ UNCHANGED <<root, treeIsAnimating, inputValue, treeTimers, treeCrashed, treeStale>>
  /\ treeEvent' = "noValueToDelete"
  /\ UNCHANGED treeOthers

HandleNodeClick ==
  \E nodeId \in Ids(TreeIds(root)) :
    /\ ~treeCrashed
    /\ TreeCommit(updateNodeStatus(root, nodeId, "visiting"), treeTimers)
    /\ UNCHANGED <<treeIsAnimating, inputValue, treeCrashed, treeStale>>
    /\ treeEvent' = "handled"
    /\ UNCHANGED treeOthers

TreeNext ==
  \/ SetInputValue
  \/ CreateRandomTree
  \/ HandleClear
  \/ HandleInsert
  \/ InsertWalkStep
  \/ InsertedStep
  \/ RootInsertedStep
  \/ HighlightElapsed
  \/ HandleTreeSearch
  \/ SearchWalkStep
  \/ HandleDelete
  \/ HandleNodeClick

\* ---- the worked example of the tree: the values typed into the input, in
\* this order, each followed by Insert; then the first one again, typed into
\* the Delete input (which writes inputValue too), followed by Delete
ScenarioValues == <<50, 30, 70, 20, 40, 60, 80>>

TypeScenarioValue ==
  LET n == Len(TreeIds(root))
  IN /\ ~treeCrashed
     /\ inputValue' = <<ScenarioValues[IF n < Len(ScenarioValues) THEN n + 1 ELSE 1]>>
     /\ treeEvent' = "handled"
     /\ UNCHANGED <<root, treeIsAnimating, treeTimers, treeCrashed, treeStale>>
     /\ UNCHANGED treeOthers

TreeScenarioNext ==
  \/ TypeScenarioValue
  \/ HandleInsert
  \/ InsertWalkStep
  \/ InsertedStep
  \/ RootInsertedStep
  \/ HighlightElapsed
  \/ HandleDelete

\* C26: after a rejected tree request (inserting a value already in the tree,
\* or searching an empty tree) the animation-in-progress flag is false again,
\* so that the next insert, search or delete request is accepted.
C26_RejectionFreesFlag ==
  [][(\/ (inputValue # <<>> /\ valueExists(root, inputValue[1]) /\ HandleInsert)
      \/ (inputValue # <<>> /\ root = <<>> /\ HandleTreeSearch)) =>
       ~treeIsAnimating']_vars

\* C28: when the user types a value that is in the tree into the Delete Node
\* input and presses Delete, handleDelete acts on that typed value (it does
\* not stop at its check for an empty value), so that the value can be removed
\* while all other values remain.
C28_DeleteActsOnTypedValue ==
  [][(inputValue # <<>> /\ valueExists(root, inputValue[1]) /\ ~treeIsAnimating
        /\ HandleDelete) =>
       treeEvent' # "noValueToDelete"]_vars

\* C34: after a tree insert, search or delete has ended, whatever its outcome
\* (inserted, found, not found, duplicate), and its highlight period has
\* elapsed (no timer of the tree is pending), every node has status default.
C34_TreeStatusesResolved ==
  [][((InsertWalkStep \/ InsertedStep \/ RootInsertedStep \/ SearchWalkStep
         \/ HighlightElapsed)
        /\ ~treeCrashed' /\ treeTimers' = <<>>) =>
       root' = resetStatus(root')]_vars

\* C36: after every completed insert into the tree (animated or batch), every
\* node's height equals 1 + max(height of its left child, height of its right
\* child), counting a missing child as 0.
RECURSIVE HeightsKept(_)
HeightsKept(node) ==
  IF node = <<>> THEN TRUE
  ELSE LET l  == node[1].left
           r  == node[1].right
           hl == IF l = <<>> THEN 0 ELSE l[1].height
           hr == IF r = <<>> THEN 0 ELSE r[1].height
       IN /\ node[1].height = 1 + (IF hl > hr THEN hl ELSE hr)
          /\ HeightsKept(l)
          /\ HeightsKept(r)

C36_HeightsRecomputed ==
  [][(InsertedStep \/ RootInsertedStep \/ CreateRandomTree) => HeightsKept(root')]_vars

(***************************************************************************)
(* The speed setting.  Each visualizer holds useState speed and passes     *)
(* setSpeed (or a handleSpeedChange that only calls it) to the controls,   *)
(* whose slider (min 1, max 10, step 1) is the only caller.                *)
(***************************************************************************)
Visualizers == {"array", "list", "hash", "tree"}

\* the values the slider's onValueChange delivers
SliderValues == 1..10

\* useState(1) in the array, list and hash visualizers, useState(50) in the tree
SpeedInit == speed = [array |-> 1, list |-> 1, hash |-> 1, tree |-> 50]

\* the controls' handleSpeedChange: onSpeedChange(newSpeed), that is setSpeed
handleSpeedChange(v, newSpeed) ==
  /\ speed' = [speed EXCEPT ![v] = newSpeed]
  /\ UNCHANGED speedOthers

SpeedNext == \E v \in Visualizers, n \in SliderValues : handleSpeedChange(v, n)

(***************************************************************************)
(* One playback with its clock: playVisualization's animate and its        *)
(* elapsed-time test, in the current ("array") and the older ("older")     *)
(* array visualizer.  clock = [vis, phase, speed, now, ref, step, last,   *)
(* gap, frame]: now is Date.now() at the latest callback, ref is          *)
(* animationRef.current, step the closure's counter, last the time of the  *)
(* latest advance and gap the time between the latest two advances.        *)
(***************************************************************************)
\* the last index of the log played
ClockLastIndex == 4

\* the time between two animation frames of a 60 Hz display, in ms
FramePeriods == {16, 17}

ClockIdle ==
  clock = [vis |-> "array", phase |-> "idle", speed |-> 1, now |-> ClockStart,
           ref |-> Null, step |-> 0, last |-> Null, gap |-> Null, frame |-> 0]

\* Math.round(1000 / (speed * 2))
SpeedFactor(sp) == (1000 + sp) \div (2 * sp)

\* timestamp - animationRef.current >= speedFactor; the older visualizer's
\* speedFactor is 500 / speed, not rounded
Elapsed(c, timestamp) ==
  IF c.vis = "array" THEN timestamp - c.ref >= SpeedFactor(c.speed)
  ELSE (timestamp - c.ref) * c.speed >= 500

\* playVisualization: animationRef.current = requestAnimationFrame(animate)
ClockPlay ==
  \E v \in {"array", "older"}, sp \in SliderValues :
    /\ clock.phase = "idle"
    /\ clock' = [clock EXCEPT !.vis = v, !.phase = "playing", !.speed = sp,
                              !.ref = 1, !.frame = 1]
    /\ UNCHANGED clockOthers

\* animate, d ms after the callback before it.  requestAnimationFrame returns
\* the next request id, and the assignment of line 374 replaces the timestamp
\* stored at line 363.
ClockFrame ==
  \E d \in FramePeriods :
    LET timestamp == clock.now + d
        id        == clock.frame + 1
    IN /\ clock.phase = "playing"
       /\ clock.frame < MaxClockFrames
       /\ IF clock.ref = Null \/ clock.ref = 0 \/ Elapsed(clock, timestamp)
          THEN IF clock.step < ClockLastIndex
               THEN clock' = [clock EXCEPT !.now = timestamp, !.step = @ + 1,
                                         !.last = timestamp,
                                         !.gap = IF clock.last = Null THEN Null
                                                 ELSE timestamp - clock.last,
                                         !.ref = id, !.frame = id]
               ELSE clock' = [clock EXCEPT !.now = timestamp, !.phase = "completed",
                                         !.ref = Null]
          ELSE clock' = [clock EXCEPT !.now = timestamp, !.ref = id, !.frame = id]
       /\ UNCHANGED clockOthers

ClockNext ==
  \/ ClockPlay
  \/ ClockFrame

(***************************************************************************)
(* Stack visualizer.  The array holds the bottom first and the top last.   *)
(* A handler runs up to its await in one step and leaves a timer; what     *)
(* follows the await runs when the timer fires.  The delay of a timer is   *)
(* 1000 / speed or 1500 / speed with the speed of the moment it was set,   *)
(* so two waiting timers can fire in either order.                         *)
(***************************************************************************)
\* what the number input can hold: '' or a number's text
InputTexts == {<<>>, <<"5">>, <<"1", "2", ".", "5">>}

\* parseInt(text) of a text that starts with a digit: the digits before the
\* first other character, read in base 10
parseInt(text) ==
  LET Digits == <<"0", "1", "2", "3", "4", "5", "6", "7", "8", "9">>
      IsDigit(c) == \E d \in 1..10 : Digits[d] = c
      DigitValue(c) == (CHOOSE d \in 1..10 : Digits[d] = c) - 1
      stop == IF \E k \in 1..Len(text) : ~IsDigit(text[k])
              THEN CHOOSE k \in 1..Len(text) :
                     ~IsDigit(text[k]) /\ \A m \in 1..(k - 1) : IsDigit(text[m])
              ELSE Len(text) + 1
      Read[k \in 0..Len(text)] ==
        IF k = 0 THEN 0 ELSE Read[k - 1] * 10 + DigitValue(text[k])
  IN Read[stop - 1]

\* updated[idx] = { ...updated[idx], status }, idx counted from 1
WithStatus(items, idx, st) ==
  IF items = <<>> THEN items ELSE [items EXCEPT ![idx].status = st]

StackIdle ==
  /\ stack = <<[value |-> 30, status |-> "default", uid |-> 1],
               [value |-> 20, status |-> "default", uid |-> 2],
               [value |-> 10, status |-> "default", uid |-> 3]>>
  /\ stackNewItemValue = <<>>
  /\ stackSelectedItem = Null
  /\ stackAnimationInProgress = FALSE
  /\ stackTimers = <<>>
  /\ stackPushed = <<1, 2, 3>>

SetStackNewItemValue ==
  \E text \in InputTexts :
    /\ ~stackAnimationInProgress
    /\ stackNewItemValue' = text
    /\ UNCHANGED <<stack, stackSelectedItem, stackAnimationInProgress, stackTimers,
                   stackPushed>>
    /\ UNCHANGED stackOthers

resetStack ==
  /\ stack' = <<[value |-> 30, status |-> "default", uid |-> 1],
                [value |-> 20, status |-> "default", uid |-> 2],
                [value |-> 10, status |-> "default", uid |-> 3]>>
  /\ stackSelectedItem' = Null
  /\ stackNewItemValue' = <<>>
  /\ stackAnimationInProgress' = FALSE
  /\ stackPushed' = <<1, 2, 3>>
  /\ UNCHANGED stackTimers
  /\ UNCHANGED stackOthers

handlePush ==
  /\ stackNewItemValue # <<>> /\ ~stackAnimationInProgress
  /\ Len(stack) < MaxStackLen /\ Len(stackTimers) < MaxStackTimers
  /\ LET id == FreshId({stack[k].uid : k \in 1..Len(stack)})
         newItem == [value |-> parseInt(stackNewItemValue), status |-> "pushing",
                     uid |-> id]
     IN /\ stack' = Append(stack, newItem)
        /\ stackPushed' = Append(stackPushed, id)
  /\ stackAnimationInProgress' = TRUE
  /\ stackNewItemValue' = <<>>
  /\ stackTimers' = Append(stackTimers, "push")
  /\ UNCHANGED stackSelectedItem
  /\ UNCHANGED stackOthers

handlePop ==
  /\ stack # <<>> /\ ~stackAnimationInProgress
  /\ Len(stackTimers) < MaxStackTimers
  /\ stackAnimationInProgress' = TRUE
  /\ stack' = WithStatus(stack, Len(stack), "popping")
  /\ stackTimers' = Append(stackTimers, "pop")
  /\ UNCHANGED <<stackNewItemValue, stackSelectedItem, stackPushed>>
  /\ UNCHANGED stackOthers

handlePeek ==
  /\ stack # <<>> /\ ~stackAnimationInProgress
  /\ Len(stackTimers) < MaxStackTimers
  /\ stackAnimationInProgress' = TRUE
  /\ LET resetItems == <<>> \o [k \in 1..Len(stack) |->
                                  IF stack[k].status = "active"
                                  THEN [stack[k] EXCEPT !.status = "default"]
                                  ELSE stack[k]]
     IN stack' = WithStatus(resetItems, Len(resetItems), "active")
  /\ stackTimers' = Append(stackTimers, "peek")
  /\ UNCHANGED <<stackNewItemValue, stackSelectedItem, stackPushed>>
  /\ UNCHANGED stackOthers

\* a pop that takes the bottom item: prev.slice(1)
StackResumeBottom(i) ==
  /\ i \in 1..Len(stackTimers)
  /\ stackTimers' = RemoveTimer(stackTimers, i)
  /\ stackAnimationInProgress' = FALSE
  /\ IF stackTimers[i] = "pop"
     THEN /\ stack' = SubSeq(stack, 2, Len(stack))
          /\ stackSelectedItem' = Null
          /\ stackPushed' = IF stack = <<>> THEN stackPushed
                            ELSE SelectSeq(stackPushed, LAMBDA u : u # stack[1].uid)
     ELSE /\ stack' = WithStatus(stack, Len(stack), "default")
          /\ UNCHANGED <<stackSelectedItem, stackPushed>>
  /\ UNCHANGED stackNewItemValue
  /\ UNCHANGED stackOthers

\* the rest of the handler whose timer is the i-th waiting one
StackResume(i) ==
  /\ i \in 1..Len(stackTimers)
  /\ stackTimers' = RemoveTimer(stackTimers, i)
  /\ stackAnimationInProgress' = FALSE
  /\ IF stackTimers[i] = "pop"
     THEN /\ stack' = SubSeq(stack, 1, Len(stack) - 1)
          /\ stackSelectedItem' = Null
          /\ stackPushed' = IF stack = <<>> THEN stackPushed
                            ELSE SelectSeq(stackPushed, LAMBDA u : u # Last(stack).uid)
     ELSE /\ stack' = WithStatus(stack, Len(stack), "default")
          /\ UNCHANGED <<stackSelectedItem, stackPushed>>
  /\ UNCHANGED stackNewItemValue
  /\ UNCHANGED stackOthers

StackItemClick ==
  \E index \in 0..(Len(stack) - 1) :
    /\ ~stackAnimationInProgress
    /\ stackSelectedItem' = IF stackSelectedItem = index THEN Null ELSE index
    /\ UNCHANGED <<stack, stackNewItemValue, stackAnimationInProgress, stackTimers,
                   stackPushed>>
    /\ UNCHANGED stackOthers

StackNext ==
  \/ SetStackNewItemValue
  \/ resetStack
  \/ handlePush
  \/ handlePop
  \/ handlePeek
  \/ \E i \in 1..MaxStackTimers : StackResume(i)
  \/ StackItemClick

(***************************************************************************)
(* Queue visualizer.  The array holds the front first and the back last.   *)
(* Handlers and timers are modelled as for the stack.                      *)
(***************************************************************************)
QueueIdle ==
  /\ queue = <<[value |-> 10, status |-> "default", uid |-> 1],
               [value |-> 20, status |-> "default", uid |-> 2],
               [value |-> 30, status |-> "default", uid |-> 3]>>
  /\ queueNewItemValue = <<>>
  /\ queueSelectedItem = Null
  /\ queueAnimationInProgress = FALSE
  /\ queueTimers = <<>>
  /\ queueEnqueued = <<1, 2, 3>>

SetQueueNewItemValue ==
  \E text \in InputTexts :
    /\ ~queueAnimationInProgress
    /\ queueNewItemValue' = text
    /\ UNCHANGED <<queue, queueSelectedItem, queueAnimationInProgress, queueTimers,
                   queueEnqueued>>
    /\ UNCHANGED queueOthers

resetQueue ==
  /\ queue' = <<[value |-> 10, status |-> "default", uid |-> 1],
                [value |-> 20, status |-> "default", uid |-> 2],
                [value |-> 30, status |-> "default", uid |-> 3]>>
  /\ queueSelectedItem' = Null
  /\ queueNewItemValue' = <<>>
  /\ queueAnimationInProgress' = FALSE
  /\ queueEnqueued' = <<1, 2, 3>>
  /\ UNCHANGED queueTimers
  /\ UNCHANGED queueOthers

handleEnqueue ==
  /\ queueNewItemValue # <<>> /\ ~queueAnimationInProgress
  /\ Len(queue) < MaxQueueLen /\ Len(queueTimers) < MaxQueueTimers
  /\ LET id == FreshId({queue[k].uid : k \in 1..Len(queue)})
         newItem == [value |-> parseInt(queueNewItemValue), status |-> "pushing",
                     uid |-> id]
     IN /\ queue' = Append(queue, newItem)
        /\ queueEnqueued' = Append(queueEnqueued, id)
  /\ queueAnimationInProgress' = TRUE
  /\ queueNewItemValue' = <<>>
  /\ queueTimers' = Append(queueTimers, "enqueue")
  /\ UNCHANGED queueSelectedItem
  /\ UNCHANGED queueOthers

handleDequeue ==
  /\ queue # <<>> /\ ~queueAnimationInProgress
  /\ Len(queueTimers) < MaxQueueTimers
  /\ queueAnimationInProgress' = TRUE
  /\ queue' = WithStatus(queue, 1, "popping")
  /\ queueTimers' = Append(queueTimers, "dequeue")
  /\ UNCHANGED <<queueNewItemValue, queueSelectedItem, queueEnqueued>>
  /\ UNCHANGED queueOthers

handleQueuePeek ==
  /\ queue # <<>> /\ ~queueAnimationInProgress
  /\ Len(queueTimers) < MaxQueueTimers
  /\ queueAnimationInProgress' = TRUE
  /\ LET resetItems == <<>> \o [k \in 1..Len(queue) |->
                                  IF queue[k].status = "active"
                                  THEN [queue[k] EXCEPT !.status = "default"]
                                  ELSE queue[k]]
     IN queue' = WithStatus(resetItems, 1, "active")
  /\ queueTimers' = Append(queueTimers, "peek")
  /\ UNCHANGED <<queueNewItemValue, queueSelectedItem, queueEnqueued>>
  /\ UNCHANGED queueOthers

\* a dequeue that takes the back item: prev.slice(0, -1)
QueueResumeBack(i) ==
  /\ i \in 1..Len(queueTimers)
  /\ queueTimers' = RemoveTimer(queueTimers, i)
  /\ queueAnimationInProgress' = FALSE
  /\ CASE queueTimers[i] = "dequeue" ->
            /\ queue' = SubSeq(queue, 1, Len(queue) - 1)
            /\ queueSelectedItem' = Null
            /\ queueEnqueued' = IF queue = <<>> THEN queueEnqueued
                                ELSE SelectSeq(queueEnqueued, LAMBDA u : u # Last(queue).uid)
       [] queueTimers[i] = "enqueue" ->
            /\ queue' = WithStatus(queue, Len(queue), "default")
            /\ UNCHANGED <<queueSelectedItem, queueEnqueued>>
       [] queueTimers[i] = "peek" ->
            /\ queue' = WithStatus(queue, 1, "default")
            /\ UNCHANGED <<queueSelectedItem, queueEnqueued>>
  /\ UNCHANGED queueNewItemValue
  /\ UNCHANGED queueOthers

\* the rest of the handler whose timer is the i-th waiting one
QueueResume(i) ==
  /\ i \in 1..Len(queueTimers)
  /\ queueTimers' = RemoveTimer(queueTimers, i)
  /\ queueAnimationInProgress' = FALSE
  /\ CASE queueTimers[i] = "dequeue" ->
            /\ queue' = SubSeq(queue, 2, Len(queue))
            /\ queueSelectedItem' = Null
            /\ queueEnqueued' = IF queue = <<>> THEN queueEnqueued
                                ELSE SelectSeq(queueEnqueued, LAMBDA u : u # queue[1].uid)
       [] queueTimers[i] = "enqueue" ->
            /\ queue' = WithStatus(queue, Len(queue), "default")
            /\ UNCHANGED <<queueSelectedItem, queueEnqueued>>
       [] queueTimers[i] = "peek" ->
            /\ queue' = WithStatus(queue, 1, "default")
            /\ UNCHANGED <<queueSelectedItem, queueEnqueued>>
  /\ UNCHANGED queueNewItemValue
  /\ UNCHANGED queueOthers

QueueItemClick ==
  \E index \in 0..(Len(queue) - 1) :
    /\ ~queueAnimationInProgress
    /\ queueSelectedItem' = IF queueSelectedItem = index THEN Null ELSE index
    /\ UNCHANGED <<queue, queueNewItemValue, queueAnimationInProgress, queueTimers,
                   queueEnqueued>>
    /\ UNCHANGED queueOthers

QueueNext ==
  \/ SetQueueNewItemValue
  \/ resetQueue
  \/ handleEnqueue
  \/ handleDequeue
  \/ handleQueuePeek
  \/ \E i \in 1..MaxQueueTimers : QueueResume(i)
  \/ QueueItemClick

(***************************************************************************)
(* Claims about the step recorders (SpecSort)                              *)
(***************************************************************************)
\* C1: for every input array the step log returned by bubbleSort and by
\* selectionSort ends with a step whose values are a non-decreasing
\* permutation of the input and whose elements all have status sorted; for
\* [3,1,2] the final step is [1,2,3] and the log has a fixed length.
C1_FinalStepSorted ==
  sortAlgo \in {"bubbleSort", "selectionSort"} =>
    /\ Len(sortLog) >= 1
    /\ NonDecreasing(Values(Last(sortLog)))
    /\ IsPermutation(Values(Last(sortLog)), sortInput)
    /\ AllStatus(Last(sortLog), "sorted")
    /\ sortInput = <<3, 1, 2>> =>
         /\ Values(Last(sortLog)) = <<1, 2, 3>>
         /\ Len(sortLog) = IF sortAlgo = "bubbleSort" THEN 9 ELSE 13

C1_Witness ==
  /\ sortAlgo = "bubbleSort"
  /\ sortInput = <<3, 1, 2>>
  /\ Values(Last(sortLog)) = <<1, 2, 3>>

\* C22: a step, once recorded, is not altered by the algorithm's later
\* mutation of its working array.  Step 0 is recorded as the input with every
\* status default, so it reads that way after the run, in the current and in
\* the older visualizer.
C22_StepZeroKept ==
  sortAlgo # "none" => sortLog[1] = ToItems(sortInput)

\* C25: bubbleSort and selectionSort applied to an array of 0 or 1 elements
\* raise no error and return a single-step log: one step, holding the input.
\* (The arrays the visualizer sorts have at least one element.)
C25_SmallInputSingleStep ==
  (sortAlgo \in {"bubbleSort", "selectionSort"} /\ Len(sortInput) <= 1) =>
    (Len(sortLog) = 1 /\ Values(sortLog[1]) = sortInput)

\* C35: in every step of a bubble-sort or selection-sort step log, at most
\* one pair of elements (at most two elements) carries a transient comparing
\* or swapping status.
Transient(step) == {k \in 1..Len(step) : step[k].status \in {"comparing", "swapping"}}

C35_AtMostOnePairTransient ==
  sortAlgo \in {"bubbleSort", "selectionSort"} =>
    \A n \in 1..Len(sortLog) : Cardinality(Transient(sortLog[n])) <= 2

(***************************************************************************)
(* Claims about the array visualizer's transport (SpecArray)               *)
(***************************************************************************)
arrState == <<array, arraySize, selectedAlgorithm, isPlaying, isCompleted,
              currentStep, totalSteps, stepsRef, animationRef, frames>>

\* C6: after any sequence of stepForward, stepBackward, play and pause calls,
\* with any number of playback ticks between them, currentStep lies in
\* [0, totalSteps].
C6_IndexInRange == currentStep >= 0 /\ currentStep <= totalSteps

C6_Witness ==
  /\ totalSteps > 0
  /\ currentStep = totalSteps
  /\ isCompleted

\* C7: when not playing and currentStep > 0, stepBackward() decreases
\* currentStep by exactly 1 and displays the step at the new index.
C7_StepBackwardDecrements ==
  [][(StepBackwardEnabled /\ StepVisualization(FALSE)) =>
       (currentStep' = currentStep - 1 /\ array' = stepsRef'[currentStep' + 1])]_vars

\* C8: play() invoked while already playing or completed is a no-op: it
\* changes no state, regenerates no log and starts no schedule.
C8_PlayIgnoredIsNoOp ==
  [][((isPlaying \/ isCompleted) /\ PlayVisualization) => UNCHANGED arrState]_vars

C8_Witness ==
  /\ arrEvent = "playIgnored"
  /\ isPlaying
  /\ Len(frames) = 1

\* C9: pause() while not playing is a no-op; pause() while playing halts the
\* periodic schedule, so that currentStep keeps the value it had at the pause
\* until the next play, step or reset.
C9_PauseHaltsSchedule ==
  /\ [][(~isPlaying /\ PauseVisualization) => UNCHANGED arrState]_vars
  /\ [][(arrEvent = "pause" /\ arrEvent' = "pause") => currentStep' = currentStep]_vars

\* C10: reset() from any transport state cancels the pending schedule, discards
\* the step log and leaves isPlaying = false, isCompleted = false,
\* currentStep = 0, totalSteps = 0 and a log of exactly one step, the freshly
\* generated array.
C10_ResetReturnsToReady ==
  [][ResetVisualization =>
       /\ frames' = <<>>
       /\ animationRef' = Null
       /\ ~isPlaying' /\ ~isCompleted'
       /\ currentStep' = 0 /\ totalSteps' = 0
       /\ stepsRef' = <<array'>>
       /\ AllStatus(array', "default")]_vars

\* C24: stepForward() or stepBackward() invoked while the array visualizer is
\* playing is a no-op: it changes neither currentStep, isCompleted nor the
\* displayed array.
C24_StepWhilePlayingIsNoOp ==
  [][(isPlaying /\ (HandleStepForward \/ HandleStepBackward)) =>
       UNCHANGED <<currentStep, isCompleted, array>>]_vars

C24_Witness ==
  /\ arrEvent = "stepDisabled"
  /\ isPlaying
  /\ currentStep > 0 /\ currentStep < totalSteps

\* C11: at every moment, after any sequence of play, pause, step, reset,
\* setSize, shuffle and loadCustom, at most one chain of pending
\* animation-frame callbacks is active.
C11_AtMostOneSchedule == Len(frames) <= 1

\* C12: during playback every animation frame that changes what is displayed
\* shows the step right after the one displayed before it: no step is
\* skipped, repeated or shown out of order.
C12_StepsInOrder ==
  [][(isPlaying /\ AnimationFrame) =>
       \/ (currentStep' = currentStep + 1 /\ array' = stepsRef[currentStep' + 1])
       \/ (currentStep' = currentStep /\ array' = array)]_vars

\* C13: after reset, a size change or an algorithm change issued during
\* playback (the state they leave: not playing, not completed, step 0, a step
\* log holding only the new array), no callback of the earlier playback changes
\* the current step, isPlaying, isCompleted or the displayed array.
C13_EarlierCallbackInert ==
  [][(~isPlaying /\ ~isCompleted /\ currentStep = 0 /\ Len(stepsRef) = 1
        /\ AnimationFrame) =>
       UNCHANGED <<currentStep, isPlaying, isCompleted, array>>]_vars

\* C29: step 0 of the log that playback or stepping shows equals the array
\* displayed immediately before the sort began: after Shuffle or Custom Array
\* has replaced the array, the next play or step uses a log generated from the
\* new array, never one computed from an earlier array.
C29_LogFromDisplayedArray ==
  [][(arrEvent = "arrayReplaced" /\ (PlayVisualization \/ HandleStepForward)
        /\ arrEvent' = "handled") =>
       stepsRef'[1] = array]_vars

\* C30: whenever isCompleted is true, currentStep equals the last index of the
\* current step log and the displayed array is that log's final, sorted step.
C30_CompletedAtLastStep ==
  isCompleted =>
    /\ stepsRef # <<>>
    /\ currentStep = Len(stepsRef) - 1
    /\ array = Last(stepsRef)
    /\ AllStatus(array, "sorted")

\* C32: from the initial or freshly reset state (not playing, not completed,
\* step log not yet generated, an array of at least two elements),
\* stepForward() generates the step log and advances currentStep from 0 to 1.
C32_FirstStepGeneratesLog ==
  [][(~isPlaying /\ ~isCompleted /\ Len(stepsRef) <= 1 /\ currentStep = 0
        /\ Len(array) >= 2 /\ HandleStepForward) =>
       (currentStep' = 1 /\ stepsRef' = getCurrentSortAlgorithm(selectedAlgorithm, array))]_vars

RECURSIVE WeightedSum(_)
WeightedSum(key) ==
  IF key = <<>> THEN 0
  ELSE WeightedSum(SubSeq(key, 1, Len(key) - 1)) + charCodeAt(key[Len(key)]) * Len(key)

\* C38: for every key and every bucket count n >= 1, hashFunction, which
\* reduces modulo n after each character, returns the weighted character sum
\* modulo n; for key "age" and 8 buckets the result is 6.
C38_HashIsWeightedSumModN ==
  /\ hashCall.result # Null =>
       hashCall.result = WeightedSum(hashCall.key) % hashCall.size
  /\ (hashCall.key = <<"a", "g", "e">> /\ hashCall.size = 8 /\ hashCall.result # Null)
       => hashCall.result = 6

C38_Witness ==
  hashCall = [key |-> <<"a", "g", "e">>, size |-> 8, result |-> 6]

(***************************************************************************)
(* Claims about the stack and the queue (SpecStack, SpecQueue)             *)
(***************************************************************************)
\* C39: each completed pop that finds an item removes the most recently pushed
\* item still present (last in, first out) and leaves the remaining items as
\* they were, in their order.
C39_PopIsLifo ==
  [][\A i \in 1..MaxStackTimers :
       (i <= Len(stackTimers) /\ stackTimers[i] = "pop" /\ stack # <<>>
          /\ StackResume(i)) =>
         /\ stackPushed # <<>>
         /\ stack' = SelectSeq(stack, LAMBDA it : it.uid # Last(stackPushed))
         /\ Len(stack') = Len(stack) - 1]_vars

\* a pop has taken 10 off the first stack, and 12.5 has been pushed since
C39_Witness ==
  /\ Len(stack) = 3 /\ stack[3].value = 12 /\ stack[3].status = "default"
  /\ stack[2].value = 20 /\ stackPushed = <<1, 2, 3>>
  /\ stackTimers = <<>>

\* C40: each completed dequeue that finds an item removes the earliest enqueued
\* item still present (first in, first out) and leaves the remaining items as
\* they were, in their order.
C40_DequeueIsFifo ==
  [][\A i \in 1..MaxQueueTimers :
       (i <= Len(queueTimers) /\ queueTimers[i] = "dequeue" /\ queue # <<>>
          /\ QueueResume(i)) =>
         /\ queueEnqueued # <<>>
         /\ queue' = SelectSeq(queue, LAMBDA it : it.uid # queueEnqueued[1])
         /\ Len(queue') = Len(queue) - 1]_vars

\* a dequeue has taken 10 off the first queue after 5 was enqueued
C40_Witness ==
  /\ Len(queue) = 3 /\ queue[1].value = 20 /\ queue[3].value = 5
  /\ queue[3].status = "default" /\ queueTimers = <<>>

(***************************************************************************)
(* Claims about the linked-list visualizer (SpecList)                      *)
(***************************************************************************)
\* the index reached from index i by following next n times (Null once the
\* walk falls off the list)
RECURSIVE FollowNext(_, _)
FollowNext(i, n) ==
  IF n = 0 THEN i
  ELSE IF ~Defined(nodes, i) THEN Null
  ELSE FollowNext(nodes[i + 1].next, n - 1)

\* C3: for every list kind, once every requested addToHead, addToTail,
\* removeFromHead and removeFromTail operation has completed, following next
\* from head exactly length-1 times reaches the node at index tail.
C3_NextWalkReachesTail ==
  (listTimers = <<>> /\ nodes # <<>>) =>
    /\ head # Null
    /\ tail # Null
    /\ FollowNext(head, Len(nodes) - 1) = tail

\* C4: in a doubly linked list, after every sequence of completed head/tail
\* inserts and removes, every node i whose next is j has node j's prev equal
\* to i, so that walking prev from tail reaches head.
C4_PrevMirrorsNext ==
  (listTimers = <<>> /\ listType = "doubly") =>
    \A i \in 0..(Len(nodes) - 1) :
      LET j == nodes[i + 1].next
      IN j # Null => (Defined(nodes, j) /\ HasPrev(nodes[j + 1]) /\ nodes[j + 1].prev = i)

\* the continuations of the four list handlers
ListResume ==
  AddToHeadResume \/ AddToTailResume \/ RemoveFromHeadResume \/ RemoveFromTailResume

\* C14: when Reset or a switch of list kind has happened while an add or
\* remove was waiting out its highlight delay (the list shown is the one the
\* reset produced and the continuation is still pending), the delayed
\* continuation leaves that structure as the reset produced it.
C14_ResetSurvivesContinuation ==
  [][(listStale = 1 /\ listTimers # <<>> /\ nodes = initialNodes(listType)
        /\ head = 0 /\ tail = Len(nodes) - 1 /\ ListResume) =>
       (nodes' = nodes /\ head' = head /\ tail' = tail)]_vars

\* C17: in the circular list kind, whenever no insert or remove is pending and
\* the list is non-empty (after an insert into an emptied list too), the tail
\* node's next equals head and is not null.
C17_CircularTailNext ==
  (listType = "circular" /\ listStale = 0 /\ listTimers = <<>> /\ ~listIsAnimating
     /\ nodes # <<>>) =>
    /\ Defined(nodes, tail)
    /\ nodes[tail + 1].next # Null
    /\ nodes[tail + 1].next = head

\* C27: every linked-list operation that starts (sets isAnimating to true)
\* eventually finishes and sets isAnimating back to false, for every list kind
\* and every list length, so the list never stays locked.
C27_OperationFinishes == listIsAnimating ~> ~listIsAnimating

(***************************************************************************)
(* Claims about the hash-table visualizer (SpecHash)                       *)
(***************************************************************************)
EntryKeys == [k \in 1..Len(entries) |-> hashHeap[entries[k]].key]

BucketKeys(b) == [k \in 1..Len(buckets[b]) |-> hashHeap[buckets[b][k]].key]

Count(seq, x) == Cardinality({k \in 1..Len(seq) : seq[k] = x})

\* C5: after every completed add or remove on the hash table (and after a
\* reset), the entries list and the buckets hold exactly the same keys, every
\* key occurs exactly once, and each entry sits in the bucket selected by
\* hashFunction(key).
C5_EntriesMatchBuckets ==
  hashTimers = <<>> =>
    \A key \in Ids(EntryKeys) \cup UNION {Ids(BucketKeys(b)) : b \in 1..Len(buckets)} :
      /\ Count(EntryKeys, key) = 1
      /\ \A b \in 1..Len(buckets) :
           Count(BucketKeys(b), key) = IF b = hashFunction(key) + 1 THEN 1 ELSE 0

\* the three request handlers of the hash table
HashRequest == HandleAddEntry \/ HandleRemoveEntry \/ HandleSearch

\* C16: an add, remove or search requested on the hash table while another
\* operation is animating (its continuation is still waiting out the
\* highlight delay) is ignored: the handler changes no entry, bucket or flag
\* and schedules nothing.
C16_BusyRequestIgnored ==
  [][(hashTimers # <<>> /\ HashRequest) =>
       UNCHANGED <<hashHeap, entries, buckets, hashIsAnimating, hashTimers>>]_vars

\* key is held by the table: by the entries list or by a bucket
InTable(key) ==
  \/ \E k \in 1..Len(entries) : EntryKeys[k] = key
  \/ \E b \in 1..Len(buckets) : \E k \in 1..Len(buckets[b]) : BucketKeys(b)[k] = key

\* C18: an insert whose key is already present anywhere in the hash table is
\* rejected with no mutation: the buckets and the entries list stay as they
\* are, whichever bucket the key maps to.
C18_DuplicateRejected ==
  [][(InTable(newKey) /\ HandleAddEntry) => UNCHANGED <<hashHeap, entries, buckets>>]_vars

\* C19: when an insert or a remove on the hash table completes, every entry
\* of the affected bucket has status collision if the bucket then holds more
\* than one entry and default otherwise (so the survivor of two colliding
\* entries is default again).
C19_BucketStatusByLength ==
  [][(Len(hashTimers) = 1 /\ (AddEntryResume \/ RemoveEntryResume)) =>
       LET b == hashTimers[1].bucketIndex + 1
       IN \A k \in 1..Len(buckets'[b]) :
            hashHeap'[buckets'[b][k]].status = ByLength(Len(buckets'[b]))]_vars

\* C33: when a hash-table or linked-list operation (add, remove, search) has
\* finished and the animation-in-progress flag is false again, no element keeps
\* a transient status: every hash entry is default or collision and every
\* list node is default.
HashSteady ==
  /\ \A k \in 1..Len(entries) : hashHeap[entries[k]].status \in {"default", "collision"}
  /\ \A b \in 1..Len(buckets) : \A k \in 1..Len(buckets[b]) :
       hashHeap[buckets[b][k]].status \in {"default", "collision"}

ListSteady == \A k \in 1..Len(nodes) : nodes[k].status = "default"

C33_NoTransientStatusLeft ==
  /\ (~hashIsAnimating /\ hashTimers = <<>>) => HashSteady
  /\ (~listIsAnimating /\ listTimers = <<>>) => ListSteady

(***************************************************************************)
(* Claims about the binary-tree visualizer (SpecTree)                      *)
(***************************************************************************)
RECURSIVE InOrder(_)
InOrder(node) ==
  IF node = <<>> THEN <<>>
  ELSE InOrder(node[1].left) \o <<node[1].value>> \o InOrder(node[1].right)

StrictlyIncreasing(a) == \A k \in 1..(Len(a) - 1) : a[k] < a[k + 1]

\* C2: whatever insert and delete requests were made, and whichever tree the
\* visualizer held before them, once no timer of the tree is pending the
\* in-order traversal of the tree is strictly increasing.
C2_InOrderStrictlyIncreasing ==
  treeTimers = <<>> => StrictlyIncreasing(InOrder(root))

\* the timer callbacks of an insert or search walk
TreeWalkTimer == InsertWalkStep \/ InsertedStep \/ RootInsertedStep \/ SearchWalkStep

\* C15: when Clear Tree or Generate Random Tree has been pressed while an
\* insert or search walk was pending (and nothing was requested since), the
\* walk is cancelled: its timers, when they fire, leave the tree's nodes,
\* values and statuses as they are.
C15_WalkCancelled ==
  [][(treeStale = 1 /\ TreeWalkTimer) => root' = root]_vars

RECURSIVE PreOrder(_)
PreOrder(node) ==
  IF node = <<>> THEN <<>>
  ELSE <<node[1].value>> \o PreOrder(node[1].left) \o PreOrder(node[1].right)

\* C20: after 50, 30, 70, 20, 40, 60, 80 have been inserted in that order
\* into an empty tree, deleting 50 leaves the in-order traversal
\* [20, 30, 40, 60, 70, 80] and makes 60, the minimum of the original right
\* subtree, the root's value.
C20_DeleteRootOfSeven ==
  [][(PreOrder(root) = <<50, 30, 20, 40, 70, 60, 80>> /\ treeTimers = <<>>
        /\ inputValue = <<50>> /\ HandleDelete) =>
       (InOrder(root') = <<20, 30, 40, 60, 70, 80>> /\ root'[1].value = 60)]_vars

\* the shape and the values of a tree, without ids, statuses and heights
RECURSIVE Shape(_)
Shape(node) ==
  IF node = <<>> THEN <<>>
  ELSE <<[value |-> node[1].value, left |-> Shape(node[1].left),
          right |-> Shape(node[1].right)]>>

\* C21: an insert of a value that is already in the tree is rejected.  On the
\* animated path (the Insert button) the tree stays as it is and no walk is
\* scheduled; on the batch path (insertNodeDirectly, applied to a search
\* tree) the tree returned has the shape and the values of the tree given: no
\* node is added, replaced or overwritten.
C21_DuplicateInsertRejected ==
  [][/\ (inputValue # <<>> /\ valueExists(root, inputValue[1]) /\ HandleInsert) =>
          (root' = root /\ treeTimers' = ClearHighlight(treeTimers))
     /\ \A v \in TreeValues :
          (valueExists(root, v) /\ StrictlyIncreasing(InOrder(root))) =>
            Shape(insertNodeDirectly(root, v, createNodeId(root, treeTimers))) = Shape(root)]_vars

\* the Insert button has just rejected the value in the input, which is in the
\* tree
C21_Witness ==
  /\ ~treeCrashed /\ treeIsAnimating /\ treeTimers = <<>> /\ treeEvent = "handled"
  /\ inputValue # <<>> /\ valueExists(root, inputValue[1])

(***************************************************************************)
(* Claims about the speed setting (SpecSpeed)                              *)
(***************************************************************************)
\* C23: in every visualizer the speed state is an integer between 1 and 10 in
\* every reachable state, the initial state included.
C23_SpeedInRange == \A v \in Visualizers : speed[v] \in 1..10

(***************************************************************************)
(* Claims about the timed playback (SpecClock)                             *)
(***************************************************************************)
\* C31: while playing, two consecutive advances of the current step are never
\* closer together than the interval computed from the speed at play time:
\* round(1000 / (2 * speed)) ms in the current array visualizer, 500 / speed ms
\* in the older one, an interval that strictly decreases as speed goes from 1
\* to 10.
C31_AdvancesKeepInterval ==
  /\ \A sp \in 1..9 : SpeedFactor(sp) > SpeedFactor(sp + 1)
  /\ clock.gap # Null =>
       IF clock.vis = "array" THEN clock.gap >= SpeedFactor(clock.speed)
       ELSE clock.gap * clock.speed >= 500

(***************************************************************************)
(* Specifications                                                          *)
(***************************************************************************)
SortNext ==
  \/ LoadSortInput
  \/ RunBubbleSort
  \/ RunSelectionSort
  \/ RunOlderBubbleSort

\* the components no action of a specification touches, as first rendered
Mounted == HashCallIdle /\ StackIdle /\ QueueIdle

InitSort == SortInit /\ ArrIdle /\ ListIdle /\ HashInit /\ TreeIdle /\ SpeedInit /\ ClockIdle /\ Mounted

SpecSort == InitSort /\ [][SortNext]_vars

InitArray == ArrInit /\ SortIdle /\ ListIdle /\ HashInit /\ TreeIdle /\ SpeedInit /\ ClockIdle /\ Mounted

SpecArray == InitArray /\ [][ArrNext]_vars

SpecArrayEdit == InitArray /\ [][ArrEditNext]_vars

\* a requested animation frame is delivered
ArrFairness == WF_vars(AnimationFrame)

SpecArrayFair == InitArray /\ [][ArrNext]_vars /\ ArrFairness

InitList == ListInit /\ SortIdle /\ ArrIdle /\ HashInit /\ TreeIdle /\ SpeedInit /\ ClockIdle /\ Mounted

SpecList == InitList /\ [][ListNext]_vars

\* a handler waiting at its await is resumed: its setTimeout elapses
ListFairness ==
  /\ WF_vars(AddToHeadResume)
  /\ WF_vars(AddToTailResume)
  /\ WF_vars(RemoveFromHeadResume)
  /\ WF_vars(RemoveFromTailResume)

SpecListFair == InitList /\ [][ListNext]_vars /\ ListFairness

InitHash == HashInit /\ SortIdle /\ ArrIdle /\ ListIdle /\ TreeIdle /\ SpeedInit /\ ClockIdle /\ Mounted

SpecHash == InitHash /\ [][HashNext]_vars

InitTree == TreeInit /\ SortIdle /\ ArrIdle /\ ListIdle /\ HashInit /\ SpeedInit /\ ClockIdle /\ Mounted

SpecTree == InitTree /\ [][TreeNext]_vars

\* the tree after Clear Tree, no timer pending
InitTreeScenario == TreeIdle /\ SortIdle /\ ArrIdle /\ ListIdle /\ HashInit /\ SpeedInit /\ ClockIdle /\ Mounted

SpecTreeScenario == InitTreeScenario /\ [][TreeScenarioNext]_vars

InitSpeed == SpeedInit /\ SortIdle /\ ArrIdle /\ ListIdle /\ HashInit /\ TreeIdle /\ ClockIdle /\ Mounted

SpecSpeed == InitSpeed /\ [][SpeedNext]_vars

InitCall == HashCallInit /\ SortIdle /\ ArrIdle /\ ListIdle /\ HashInit /\ TreeIdle
            /\ SpeedInit /\ ClockIdle /\ StackIdle /\ QueueIdle

SpecCall == InitCall /\ [][CallNext]_vars

InitStack == StackIdle /\ SortIdle /\ ArrIdle /\ ListIdle /\ HashInit /\ TreeIdle
             /\ SpeedInit /\ ClockIdle /\ HashCallIdle /\ QueueIdle

SpecStack == InitStack /\ [][StackNext]_vars

InitQueue == QueueIdle /\ SortIdle /\ ArrIdle /\ ListIdle /\ HashInit /\ TreeIdle
             /\ SpeedInit /\ ClockIdle /\ HashCallIdle /\ StackIdle

SpecQueue == InitQueue /\ [][QueueNext]_vars

InitClock == ClockIdle /\ SpeedInit /\ SortIdle /\ ArrIdle /\ ListIdle /\ HashInit /\ TreeIdle /\ Mounted

SpecClock == InitClock /\ [][ClockNext]_vars
====
